---- MODULE Spec2Model ----
(***************************************************************************)
(* A model of the requirements-analyzer front end.                         *)
(*                                                                         *)
(* Spec       : the project dashboard (components/ProjectDashboard.tsx).   *)
(*              Every user event is guarded by what the JSX renders and    *)
(*              disables; every network call is a task in flight that      *)
(*              carries the values its handler closed over when it was     *)
(*              triggered (React state read after an await is the state    *)
(*              of the render that created the handler).                   *)
(* SpecCall   : Spec plus direct invocations of handleEnhanceRequirement   *)
(*              on any requirement (the button is rendered for Analyzed    *)
(*              requirements only, so the handler's own guard is reached   *)
(*              by a direct call only).                                    *)
(* SpecScreens: the standalone screens (components/Dashboard.tsx,          *)
(*              RequirementAnalyzer.tsx, BatchAnalyzer.tsx with the        *)
(*              services/api wrapper and the stakeholder simulation).      *)
(* SpecRace   : the dashboard where the backend may handle an analyze call *)
(*              before its answer arrives.                                 *)
(* SpecTimers : the dashboard with overlapping notifications.              *)
(* SpecColors : the colour computed for a quality score.                   *)
(* SpecLive   : Spec with the fairness of the notification timer.          *)
(*                                                                         *)
(* The backend is outside the repository: it is modelled from the REST     *)
(* contract of the specification and may fail any call.  A call is handled *)
(* by the backend at the moment its response is delivered.                 *)
(* Not part of the state: the visibility flags and the text fields of the  *)
(* form modals (a submit takes the typed text as its input and is enabled  *)
(* whenever the modal may be open), titles, descriptions and timestamps.   *)
(* Strings the user types are tuples of characters, so that trim() is      *)
(* computed.  Positions in lists are 1-based here and 0-based in the code. *)
(***************************************************************************)
EXTENDS Integers, Sequences, FiniteSets, Bags, TLC

\* Bounds of the model.
MaxProjects == 4      \* project ids the backend hands out
MaxReqs == 2          \* requirement ids the backend hands out
MaxInFlight == 2      \* network calls in flight, counting the refetches a call will trigger
MaxTimers == 1        \* notification timers pending
MaxClicks == 3        \* user events in a behaviour
MaxBatch == 51        \* requirements in the list of the batch analyzer

\* services/api batchAnalyze: at most 50 requirements in one batch.
BatchLimit == 50

VARIABLES
  backend,                \* the backend's projects and requirements
  projects,               \* useState<Project[]>
  selectedProject,        \* useState<Project | null>
  requirements,           \* useState<ProjectRequirement[]>
  selectedRequirement,    \* useState<ProjectRequirement | null>
  loading,                \* useState(false)
  message,                \* useState('')
  timers,                 \* pending setTimeout callbacks of showMessage
  showRequirementDetails,
  showGenerationResults,
  generatedRequirements,
  view,                   \* the screen that is mounted
  analysisResult,         \* Dashboard.tsx / RequirementAnalyzer.tsx
  enhancementResults,     \* Dashboard.tsx (enhancementResult) / RequirementAnalyzer.tsx
  selectedEnhancement,    \* RequirementAnalyzer.tsx
  batch,                  \* BatchAnalyzer.tsx: useState<BatchRequirement[]> (requirements)
  isAnalyzing,            \* BatchAnalyzer.tsx
  currentSimulation,      \* BatchAnalyzer.tsx, StakeholderSimulation
  simulationHistory,      \* BatchAnalyzer.tsx, StakeholderSimulation
  score,                  \* a quality score that is rendered
  painted,                \* the colour each place renders it in
  apiStatus,              \* Dashboard.tsx: useState<ApiStatus>
  tasks,                  \* network calls in flight (a bag) with their closures, and
                          \* the handlers that await several calls at once
  clicks,                 \* user events so far
  last                    \* the last event (history, for stating the claims)

\* The state of the project dashboard, and the state of the standalone screens.
dashVars == <<backend, projects, selectedProject, requirements, selectedRequirement,
              showRequirementDetails, showGenerationResults, generatedRequirements>>

simVars == <<currentSimulation, simulationHistory>>

paintVars == <<score, painted>>

screenVars == <<view, analysisResult, enhancementResults, selectedEnhancement, batch,
                isAnalyzing, simVars, paintVars, apiStatus>>

vars == <<dashVars, screenVars, loading, message, timers, tasks, clicks, last>>

Null == [id |-> 0]
NoScore == -1

RECURSIVE SortedSeq(_)
SortedSeq(S) ==
  IF S = {} THEN <<>>
  ELSE LET m == CHOOSE x \in S : \A y \in S : x.id <= y.id
       IN <<m>> \o SortedSeq(S \ {m})

\* String.prototype.trim on a tuple of characters.
RECURSIVE TrimStart(_)
TrimStart(s) == IF s # <<>> /\ Head(s) = " " THEN TrimStart(Tail(s)) ELSE s

RECURSIVE TrimEnd(_)
TrimEnd(s) == IF s # <<>> /\ s[Len(s)] = " " THEN TrimEnd(SubSeq(s, 1, Len(s) - 1)) ELSE s

Trim(s) == TrimEnd(TrimStart(s))

\* What the user may type into a required field.
InputTexts == {<<>>, <<" ">>, <<"t">>}

-----------------------------------------------------------------------------
\* The backend (REST contract, section 6 of the specification).

Analyses == { [overallScore |-> 65, issues |-> <<"ambiguity">>],
              [overallScore |-> 90, issues |-> <<>>] }

EnhancementResponses ==
  { [enhancements |-> << [text |-> <<"e">>, qualityScore |-> 88],
                         [text |-> <<"f">>, qualityScore |-> 82] >>,
     recommendedIndex |-> 1] }

\* Candidates a generation may return; the text of a candidate is not validated.
GenerationResults ==
  { <<>>,
    << [title |-> "G1", text |-> <<"g">>] >>,
    << [title |-> "G1", text |-> <<"g">>], [title |-> "G2", text |-> <<" ">>] >> }

NewRequirement(id, pid, text) ==
  [id |-> id, projectId |-> pid, text |-> text, status |-> "Draft",
   qualityScore |-> NoScore, analysis |-> Null, enhancements |-> Null]

ProjectView(b, p) ==
  LET rs == {r \in b.reqs : r.projectId = p.id}
  IN [id |-> p.id, name |-> p.name,
      requirementCount |-> Cardinality(rs),
      analyzedCount |-> Cardinality({r \in rs : r.status # "Draft"})]

ListProjects(b) == SortedSeq({ProjectView(b, p) : p \in b.projects})

ListRequirements(b, pid) == SortedSeq({r \in b.reqs : r.projectId = pid})

HasProject(b, pid) == \E p \in b.projects : p.id = pid

HasRequirement(b, pid, rid) == \E r \in b.reqs : r.id = rid /\ r.projectId = pid

Ok(body) == [status |-> 200, hasBody |-> TRUE, body |-> body]

NoContent == [status |-> 204, hasBody |-> FALSE, body |-> Null]

\* A call that fails: no connection, an error with an `error` field, an error without.
FailureResponses ==
  { [status |-> 0, hasBody |-> FALSE, body |-> Null],
    [status |-> 500, hasBody |-> TRUE, body |-> [error |-> "Backend error"]],
    [status |-> 404, hasBody |-> FALSE, body |-> Null] }

Fails(b) == {[backend |-> b, resp |-> f] : f \in FailureResponses}

BackendListProjects(b) == {[backend |-> b, resp |-> Ok(ListProjects(b))]} \cup Fails(b)

BackendListRequirements(b, pid) ==
  (IF HasProject(b, pid)
     THEN {[backend |-> b, resp |-> Ok(ListRequirements(b, pid))]} ELSE {})
  \cup Fails(b)

BackendCreateProject(b, name) ==
  (IF b.nextPid <= MaxProjects
     THEN LET p == [id |-> b.nextPid, name |-> name]
              nb == [b EXCEPT !.projects = @ \cup {p}, !.nextPid = @ + 1]
          IN {[backend |-> nb, resp |-> Ok(ProjectView(nb, p))]}
     ELSE {})
  \cup Fails(b)

BackendUpdateProject(b, pid, name) ==
  (IF HasProject(b, pid)
     THEN LET p == [id |-> pid, name |-> name]
              nb == [b EXCEPT !.projects = {q \in @ : q.id # pid} \cup {p}]
          IN {[backend |-> nb, resp |-> Ok(ProjectView(nb, p))]}
     ELSE {})
  \cup Fails(b)

\* A delete answers with an empty body (the contract) or with a JSON body.
DeleteResponses == {NoContent, Ok([message |-> "deleted"])}

BackendDeleteProject(b, pid) ==
  (IF HasProject(b, pid)
     THEN LET nb == [b EXCEPT !.projects = {q \in @ : q.id # pid},
                              !.reqs = {r \in @ : r.projectId # pid}]
          IN {[backend |-> nb, resp |-> d] : d \in DeleteResponses}
     ELSE {})
  \cup Fails(b)

BackendCreateRequirement(b, pid, text) ==
  (IF HasProject(b, pid) /\ b.nextRid <= MaxReqs
     THEN LET r == NewRequirement(b.nextRid, pid, text)
              nb == [b EXCEPT !.reqs = @ \cup {r}, !.nextRid = @ + 1]
          IN {[backend |-> nb, resp |-> Ok(r)]}
     ELSE {})
  \cup Fails(b)

BackendUpdateRequirement(b, pid, rid, text) ==
  (IF HasRequirement(b, pid, rid)
     THEN LET old == CHOOSE r \in b.reqs : r.id = rid
              new == [old EXCEPT !.text = text]
              nb == [b EXCEPT !.reqs = (@ \ {old}) \cup {new}]
          IN {[backend |-> nb, resp |-> Ok(new)]}
     ELSE {})
  \cup Fails(b)

BackendDeleteRequirement(b, pid, rid) ==
  (IF HasRequirement(b, pid, rid)
     THEN LET nb == [b EXCEPT !.reqs = {r \in @ : r.id # rid}]
          IN {[backend |-> nb, resp |-> d] : d \in DeleteResponses}
     ELSE {})
  \cup Fails(b)

BackendAnalyze(b, pid, rid) ==
  (IF HasRequirement(b, pid, rid)
     THEN LET old == CHOOSE r \in b.reqs : r.id = rid
          IN { [backend |-> [b EXCEPT !.reqs = (@ \ {old}) \cup
                               {[old EXCEPT !.status = "Analyzed",
                                            !.qualityScore = a.overallScore,
                                            !.analysis = a]}],
                resp |-> Ok(a)] : a \in Analyses }
     ELSE {})
  \cup Fails(b)

BackendEnhance(b, pid, rid) ==
  (IF HasRequirement(b, pid, rid)
     THEN LET old == CHOOSE r \in b.reqs : r.id = rid
          IN { [backend |-> [b EXCEPT !.reqs = (@ \ {old}) \cup
                               {[old EXCEPT !.status = "Enhanced", !.enhancements = e]}],
                resp |-> Ok(e)] : e \in EnhancementResponses }
     ELSE {})
  \cup Fails(b)

BackendGenerate(b, pid) ==
  (IF HasProject(b, pid)
     THEN {[backend |-> b, resp |-> Ok([requirements |-> g])] : g \in GenerationResults}
     ELSE {})
  \cup Fails(b)

-----------------------------------------------------------------------------
\* apiRequest: a rejected fetch and a non-2xx answer throw; a 2xx answer is parsed
\* as JSON, and parsing an empty body throws.
ApiRequest(resp) ==
  IF resp.status = 0 THEN [ok |-> FALSE, error |-> "Failed to fetch"]
  ELSE IF ~(resp.status \in 200..299)
    THEN [ok |-> FALSE,
          error |-> IF resp.hasBody /\ "error" \in DOMAIN resp.body
                      THEN resp.body.error
                      ELSE "HTTP " \o ToString(resp.status)]
  ELSE IF ~resp.hasBody THEN [ok |-> FALSE, error |-> "Unexpected end of JSON input"]
  ELSE [ok |-> TRUE, data |-> resp.body]

Task(kind, pid, req, cReqs, cSel, arg) ==
  [kind |-> kind, pid |-> pid, req |-> req, cReqs |-> cReqs, cSel |-> cSel, arg |-> arg]

LoadProjectsTask == Task("loadProjects", 0, Null, <<>>, 0, <<>>)

LoadRequirementsTask(pid) == Task("loadRequirements", pid, Null, <<>>, 0, <<>>)

\* The calls a task may still put in flight: itself, or the refetches of its handler.
Weight(t) ==
  IF t.kind \in {"editProject", "addGenerated", "addRequirement", "editRequirement",
                 "deleteRequirement", "analyze", "apply"}
    THEN 2
  ELSE IF t.kind = "addAll"
    THEN (IF t.arg.pending < 2 THEN 2 - t.arg.pending ELSE 0)
  ELSE 1

RECURSIVE TotalWeight(_, _)
TotalWeight(ts, b) ==
  IF ts = {} THEN 0
  ELSE LET t == CHOOSE x \in ts : TRUE
       IN Weight(t) * CopiesIn(t, b) + TotalWeight(ts \ {t}, b)

Room(k) == TotalWeight(BagToSet(tasks), tasks) + k <= MaxInFlight

RECURSIVE CountKind(_, _, _)
CountKind(ts, b, kind) ==
  IF ts = {} THEN 0
  ELSE LET t == CHOOSE x \in ts : TRUE
       IN (IF t.kind = kind THEN CopiesIn(t, b) ELSE 0) + CountKind(ts \ {t}, b, kind)

InFlight(kind) == CountKind(BagToSet(tasks), tasks, kind)

\* The create-requirement calls in flight.
PendingCreates ==
  InFlight("addRequirement") + InFlight("addGenerated") + InFlight("addAllCreate")

One(t) == SetToBag({t})

\* A user event: counted, and bounded by MaxClicks.
Click == clicks < MaxClicks /\ clicks' = clicks + 1

Event(op, id, out, val) == [op |-> op, id |-> id, out |-> out, val |-> val]

\* showMessage: the text with its type as prefix, and a timer that will clear it.
ShowMessage(text, type) ==
  /\ message' = type \o ": " \o text
  /\ timers' = timers + 1

CanNotify == timers < MaxTimers

\* The requirement the backend holds at the start, in each status it can have.
InitRequirements ==
  { NewRequirement(1, 1, <<"t">>),
    [NewRequirement(1, 1, <<"t">>) EXCEPT
       !.status = "Analyzed", !.qualityScore = 65,
       !.analysis = [overallScore |-> 65, issues |-> <<"ambiguity">>]],
    [NewRequirement(1, 1, <<"t">>) EXCEPT
       !.status = "Enhanced", !.qualityScore = 65,
       !.analysis = [overallScore |-> 65, issues |-> <<"ambiguity">>],
       !.enhancements = CHOOSE e \in EnhancementResponses : TRUE] }

\* Two projects; the first holds one requirement.
InitBackends ==
  { [projects |-> {[id |-> 1, name |-> <<"t">>], [id |-> 2, name |-> <<"u">>]},
     reqs |-> {r},
     nextPid |-> 3, nextRid |-> 2] : r \in InitRequirements }

Init ==
  /\ backend \in InitBackends
  /\ projects = <<>>
  /\ selectedProject = Null
  /\ requirements = <<>>
  /\ selectedRequirement = Null
  /\ loading = FALSE
  /\ message = ""
  /\ timers = 0
  /\ showRequirementDetails = FALSE
  /\ showGenerationResults = FALSE
  /\ generatedRequirements = <<>>
  /\ view = "projects"
  /\ analysisResult = Null
  /\ enhancementResults = Null
  /\ selectedEnhancement = Null
  /\ batch = <<>>
  /\ isAnalyzing = FALSE
  /\ currentSimulation = Null
  /\ simulationHistory = <<>>
  /\ score = 0
  /\ painted = Null
  /\ apiStatus = [status |-> "unknown", loading |-> TRUE]
  /\ tasks = One(LoadProjectsTask)
  /\ clicks = 0
  /\ last = Event("mount", 0, "call", 0)

-----------------------------------------------------------------------------
\* loadProjects / loadRequirements

\* loadProjects as it would be if the answer were appended to the list instead of
\* replacing it.
LoadProjectsSettlesAppending(t) ==
  /\ t.kind = "loadProjects"
  /\ UNCHANGED <<clicks, screenVars>>
  /\ CanNotify
  /\ \E o \in BackendListProjects(backend) :
       LET r == ApiRequest(o.resp) IN
       /\ backend' = o.backend
       /\ tasks' = tasks (-) One(t)
       /\ IF r.ok
            THEN /\ projects' = projects \o r.data
                 /\ last' = Event("loadProjects", 0, "ok", 0)
                 /\ UNCHANGED <<message, timers>>
            ELSE /\ ShowMessage("Failed to load projects", "error")
                 /\ last' = Event("loadProjects", 0, "fail", 0)
                 /\ UNCHANGED projects
  /\ UNCHANGED <<selectedProject, requirements, selectedRequirement, loading,
                 showRequirementDetails, showGenerationResults, generatedRequirements>>

LoadProjectsSettles(t) ==
  /\ t.kind = "loadProjects"
  /\ UNCHANGED <<clicks, screenVars>>
  /\ CanNotify
  /\ \E o \in BackendListProjects(backend) :
       LET r == ApiRequest(o.resp) IN
       /\ backend' = o.backend
       /\ tasks' = tasks (-) One(t)
       /\ IF r.ok
            THEN /\ projects' = r.data
                 /\ last' = Event("loadProjects", 0, "ok", 0)
                 /\ UNCHANGED <<message, timers>>
            ELSE /\ ShowMessage("Failed to load projects", "error")
                 /\ last' = Event("loadProjects", 0, "fail", 0)
                 /\ UNCHANGED projects
  /\ UNCHANGED <<selectedProject, requirements, selectedRequirement, loading,
                 showRequirementDetails, showGenerationResults, generatedRequirements>>

LoadRequirementsSettles(t) ==
  /\ t.kind = "loadRequirements"
  /\ UNCHANGED <<clicks, screenVars>>
  /\ CanNotify
  /\ \E o \in BackendListRequirements(backend, t.pid) :
       LET r == ApiRequest(o.resp) IN
       /\ backend' = o.backend
       /\ tasks' = tasks (-) One(t)
       /\ IF r.ok
            THEN /\ requirements' = r.data
                 /\ last' = Event("loadRequirements", t.pid, "ok", 0)
                 /\ UNCHANGED <<message, timers>>
            ELSE /\ ShowMessage("Failed to load requirements", "error")
                 /\ last' = Event("loadRequirements", t.pid, "fail", 0)
                 /\ UNCHANGED requirements
  /\ UNCHANGED <<projects, selectedProject, selectedRequirement, loading,
                 showRequirementDetails, showGenerationResults, generatedRequirements>>

\* Clicking a project: setSelectedProject(project); the effect on selectedProject
\* then loads its requirements.
SelectProject(j) ==
  /\ Room(1) /\ Click /\ UNCHANGED screenVars
  /\ selectedProject' = projects[j]
  /\ tasks' = tasks (+) One(LoadRequirementsTask(projects[j].id))
  /\ last' = Event("selectProject", projects[j].id, "call", 0)
  /\ UNCHANGED <<backend, projects, requirements, selectedRequirement, loading, message,
                 timers, showRequirementDetails, showGenerationResults,
                 generatedRequirements>>

-----------------------------------------------------------------------------
\* Project CRUD

\* The Create Project button (no disabled attribute) -> handleCreateProject.
HandleCreateProject(name) ==
  IF Trim(name) = <<>>
    THEN /\ ShowMessage("Project name is required", "error")
         /\ last' = Event("createProject", 0, "invalid", name)
         /\ UNCHANGED tasks
    ELSE /\ tasks' = tasks (+) One(Task("createProject", 0, Null, <<>>, 0, name))
         /\ last' = Event("createProject", 0, "call", name)
         /\ UNCHANGED <<message, timers>>

CreateProjectEvent(name) ==
  /\ Click /\ UNCHANGED screenVars
  /\ backend.nextPid + InFlight("createProject") <= MaxProjects
  /\ HandleCreateProject(name)
  /\ UNCHANGED <<backend, projects, selectedProject, requirements, selectedRequirement,
                 loading, showRequirementDetails, showGenerationResults,
                 generatedRequirements>>

ClickCreateProject(name) == Room(1) /\ CanNotify /\ CreateProjectEvent(name)

\* handleCreateProject after its await as it would be if a failed call were issued
\* again, up to twice (the retry: 2 that App.tsx sets for queries); cSel counts the
\* attempts.
CreateProjectSettlesRetrying(t) ==
  /\ t.kind = "createProject"
  /\ UNCHANGED <<clicks, screenVars>>
  /\ CanNotify
  /\ \E o \in BackendCreateProject(backend, t.arg) :
       LET r == ApiRequest(o.resp) IN
       /\ backend' = o.backend
       /\ IF r.ok
            THEN /\ ShowMessage("Project created successfully", "success")
                 /\ tasks' = (tasks (-) One(t)) (+) One(LoadProjectsTask)
                 /\ last' = Event("createProject", r.data.id, "ok", 0)
            ELSE IF t.cSel < 2
              THEN /\ tasks' = (tasks (-) One(t)) (+) One([t EXCEPT !.cSel = @ + 1])
                   /\ last' = Event("createProject", 0, "retry", o.resp)
                   /\ UNCHANGED <<message, timers>>
              ELSE /\ ShowMessage("Failed to create project", "error")
                   /\ tasks' = tasks (-) One(t)
                   /\ last' = Event("createProject", 0, "fail", o.resp)
  /\ UNCHANGED <<projects, selectedProject, requirements, selectedRequirement, loading,
                 showRequirementDetails, showGenerationResults, generatedRequirements>>

CreateProjectSettles(t) ==
  /\ t.kind = "createProject"
  /\ UNCHANGED <<clicks, screenVars>>
  /\ CanNotify
  /\ \E o \in BackendCreateProject(backend, t.arg) :
       LET r == ApiRequest(o.resp) IN
       /\ backend' = o.backend
       /\ IF r.ok
            THEN /\ ShowMessage("Project created successfully", "success")
                 /\ tasks' = (tasks (-) One(t)) (+) One(LoadProjectsTask)
                 /\ last' = Event("createProject", r.data.id, "ok", 0)
            ELSE /\ ShowMessage("Failed to create project", "error")
                 /\ tasks' = tasks (-) One(t)
                 /\ last' = Event("createProject", 0, "fail", o.resp)
  /\ UNCHANGED <<projects, selectedProject, requirements, selectedRequirement, loading,
                 showRequirementDetails, showGenerationResults, generatedRequirements>>

\* The Update Project button -> handleEditProject; the call goes to selectedProject.
HandleEditProject(name) ==
  IF selectedProject = Null \/ Trim(name) = <<>>
    THEN /\ ShowMessage("Project name is required", "error")
         /\ last' = Event("editProject", 0, "invalid", name)
         /\ UNCHANGED tasks
    ELSE /\ tasks' = tasks (+) One(Task("editProject", selectedProject.id, Null, <<>>, 0, name))
         /\ last' = Event("editProject", selectedProject.id, "call", name)
         /\ UNCHANGED <<message, timers>>

ClickEditProject(name) ==
  /\ Room(2) /\ CanNotify /\ Click /\ UNCHANGED screenVars
  /\ HandleEditProject(name)
  /\ UNCHANGED <<backend, projects, selectedProject, requirements, selectedRequirement,
                 loading, showRequirementDetails, showGenerationResults,
                 generatedRequirements>>

\* On success setSelectedProject(updatedProject) re-runs the effect that loads the
\* requirements of the selected project.
EditProjectSettles(t) ==
  /\ t.kind = "editProject"
  /\ UNCHANGED <<clicks, screenVars>>
  /\ CanNotify
  /\ \E o \in BackendUpdateProject(backend, t.pid, t.arg) :
       LET r == ApiRequest(o.resp) IN
       /\ backend' = o.backend
       /\ IF r.ok
            THEN /\ selectedProject' = r.data
                 /\ ShowMessage("Project updated successfully", "success")
                 /\ tasks' = (tasks (-) One(t)) (+) One(LoadProjectsTask)
                               (+) One(LoadRequirementsTask(r.data.id))
                 /\ last' = Event("editProject", t.pid, "ok", 0)
            ELSE /\ ShowMessage("Failed to update project", "error")
                 /\ tasks' = tasks (-) One(t)
                 /\ last' = Event("editProject", t.pid, "fail", 0)
                 /\ UNCHANGED selectedProject
  /\ UNCHANGED <<projects, requirements, selectedRequirement, loading,
                 showRequirementDetails, showGenerationResults, generatedRequirements>>

\* The delete button of a project -> handleDeleteProject(project); window.confirm
\* answers at once.  The handler closes over selectedProject.
SelectedId(sel) == sel.id

\* handleDeleteProject as it would be without window.confirm.
HandleDeleteProjectUnconfirmed(project, confirmed) ==
  /\ tasks' = tasks (+) One(Task("deleteProject", project.id, Null, <<>>,
                                  SelectedId(selectedProject), <<>>))
  /\ last' = Event("deleteProject", project.id, "call", confirmed)

HandleDeleteProject(project, confirmed) ==
  IF ~confirmed
    THEN /\ last' = Event("deleteProject", project.id, "declined", confirmed)
         /\ UNCHANGED tasks
    ELSE /\ tasks' = tasks (+) One(Task("deleteProject", project.id, Null, <<>>,
                                        SelectedId(selectedProject), <<>>))
         /\ last' = Event("deleteProject", project.id, "call", confirmed)

ClickDeleteProject(j, confirmed) ==
  /\ Room(1) /\ Click /\ UNCHANGED screenVars
  /\ HandleDeleteProject(projects[j], confirmed)
  /\ UNCHANGED <<backend, projects, selectedProject, requirements, selectedRequirement,
                 loading, message, timers, showRequirementDetails, showGenerationResults,
                 generatedRequirements>>

DeleteProjectSettles(t) ==
  /\ t.kind = "deleteProject"
  /\ UNCHANGED <<clicks, screenVars>>
  /\ CanNotify
  /\ \E o \in BackendDeleteProject(backend, t.pid) :
       LET r == ApiRequest(o.resp) IN
       /\ backend' = o.backend
       /\ IF r.ok
            THEN /\ ShowMessage("Project deleted successfully", "success")
                 /\ IF t.cSel = t.pid
                      THEN selectedProject' = Null /\ requirements' = <<>>
                      ELSE UNCHANGED <<selectedProject, requirements>>
                 /\ tasks' = (tasks (-) One(t)) (+) One(LoadProjectsTask)
                 /\ last' = Event("deleteProject", t.pid, "ok", o.resp)
            ELSE /\ ShowMessage("Failed to delete project", "error")
                 /\ tasks' = tasks (-) One(t)
                 /\ last' = Event("deleteProject", t.pid, "fail", o.resp)
                 /\ UNCHANGED <<selectedProject, requirements>>
  /\ UNCHANGED <<projects, selectedRequirement, loading, showRequirementDetails,
                 showGenerationResults, generatedRequirements>>

-----------------------------------------------------------------------------
\* Requirement details, CRUD

\* View Details: setSelectedRequirement(requirement); setShowRequirementDetails(true).
ViewDetails(j) ==
  /\ selectedProject # Null
  /\ Click /\ UNCHANGED screenVars
  /\ selectedRequirement' = requirements[j]
  /\ showRequirementDetails' = TRUE
  /\ last' = Event("viewDetails", requirements[j].id, "ui", 0)
  /\ UNCHANGED <<backend, projects, selectedProject, requirements, loading, message,
                 timers, showGenerationResults, generatedRequirements, tasks>>

CloseDetails ==
  /\ showRequirementDetails /\ selectedRequirement # Null
  /\ Click /\ UNCHANGED screenVars
  /\ showRequirementDetails' = FALSE
  /\ last' = Event("closeDetails", 0, "ui", 0)
  /\ UNCHANGED <<backend, projects, selectedProject, requirements, selectedRequirement,
                 loading, message, timers, showGenerationResults, generatedRequirements,
                 tasks>>

\* Edit in the list: openEditRequirement(requirement) selects the requirement.
OpenEditRequirement(j) ==
  /\ selectedProject # Null
  /\ Click /\ UNCHANGED screenVars
  /\ selectedRequirement' = requirements[j]
  /\ last' = Event("openEditRequirement", requirements[j].id, "ui", 0)
  /\ UNCHANGED <<backend, projects, selectedProject, requirements, loading, message,
                 timers, showRequirementDetails, showGenerationResults,
                 generatedRequirements, tasks>>

HandleAddRequirement(text) ==
  IF selectedProject = Null \/ Trim(text) = <<>>
    THEN /\ ShowMessage("Requirement text is required", "error")
         /\ last' = Event("addRequirement", 0, "invalid", text)
         /\ UNCHANGED tasks
    ELSE /\ tasks' = tasks (+) One(Task("addRequirement", selectedProject.id, Null, <<>>,
                                        0, text))
         /\ last' = Event("addRequirement", selectedProject.id, "call", text)
         /\ UNCHANGED <<message, timers>>

ClickAddRequirement(text) ==
  /\ Room(2) /\ CanNotify /\ Click /\ UNCHANGED screenVars
  /\ backend.nextRid + PendingCreates <= MaxReqs
  /\ HandleAddRequirement(text)
  /\ UNCHANGED <<backend, projects, selectedProject, requirements, selectedRequirement,
                 loading, showRequirementDetails, showGenerationResults,
                 generatedRequirements>>

AddRequirementSettles(t) ==
  /\ t.kind = "addRequirement"
  /\ UNCHANGED <<clicks, screenVars>>
  /\ CanNotify
  /\ \E o \in BackendCreateRequirement(backend, t.pid, t.arg) :
       LET r == ApiRequest(o.resp) IN
       /\ backend' = o.backend
       /\ IF r.ok
            THEN /\ ShowMessage("Requirement added successfully", "success")
                 /\ tasks' = (tasks (-) One(t)) (+) One(LoadRequirementsTask(t.pid))
                               (+) One(LoadProjectsTask)
                 /\ last' = Event("addRequirement", r.data.id, "ok", 0)
            ELSE /\ ShowMessage("Failed to add requirement", "error")
                 /\ tasks' = tasks (-) One(t)
                 /\ last' = Event("addRequirement", 0, "fail", 0)
  /\ UNCHANGED <<projects, selectedProject, requirements, selectedRequirement, loading,
                 showRequirementDetails, showGenerationResults, generatedRequirements>>

HandleEditRequirement(text) ==
  IF selectedRequirement = Null \/ Trim(text) = <<>>
    THEN /\ ShowMessage("Requirement text is required", "error")
         /\ last' = Event("editRequirement", 0, "invalid", text)
         /\ UNCHANGED tasks
    ELSE /\ tasks' = tasks (+) One(Task("editRequirement", selectedRequirement.projectId,
                                        selectedRequirement, <<>>, 0, text))
         /\ last' = Event("editRequirement", selectedRequirement.id, "call", text)
         /\ UNCHANGED <<message, timers>>

ClickEditRequirement(text) ==
  /\ Room(2) /\ CanNotify /\ Click /\ UNCHANGED screenVars
  /\ HandleEditRequirement(text)
  /\ UNCHANGED <<backend, projects, selectedProject, requirements, selectedRequirement,
                 loading, showRequirementDetails, showGenerationResults,
                 generatedRequirements>>

EditRequirementSettles(t) ==
  /\ t.kind = "editRequirement"
  /\ UNCHANGED <<clicks, screenVars>>
  /\ CanNotify
  /\ \E o \in BackendUpdateRequirement(backend, t.pid, t.req.id, t.arg) :
       LET r == ApiRequest(o.resp) IN
       /\ backend' = o.backend
       /\ IF r.ok
            THEN /\ selectedRequirement' = r.data
                 /\ ShowMessage("Requirement updated successfully", "success")
                 /\ tasks' = (tasks (-) One(t)) (+) One(LoadRequirementsTask(t.pid))
                               (+) One(LoadProjectsTask)
                 /\ last' = Event("editRequirement", t.req.id, "ok", 0)
            ELSE /\ ShowMessage("Failed to update requirement", "error")
                 /\ tasks' = tasks (-) One(t)
                 /\ last' = Event("editRequirement", t.req.id, "fail", 0)
                 /\ UNCHANGED selectedRequirement
  /\ UNCHANGED <<projects, selectedProject, requirements, loading,
                 showRequirementDetails, showGenerationResults, generatedRequirements>>

\* Delete in the list -> handleDeleteRequirement(requirement); the handler closes
\* over selectedRequirement.
HandleDeleteRequirement(requirement, confirmed) ==
  IF ~confirmed
    THEN /\ last' = Event("deleteRequirement", requirement.id, "declined", confirmed)
         /\ UNCHANGED tasks
    ELSE /\ tasks' = tasks (+) One(Task("deleteRequirement", requirement.projectId,
                                        requirement, <<>>,
                                        SelectedId(selectedRequirement), <<>>))
         /\ last' = Event("deleteRequirement", requirement.id, "call", confirmed)

DeleteRequirementEvent(j, confirmed) ==
  /\ selectedProject # Null
  /\ Click /\ UNCHANGED screenVars
  /\ HandleDeleteRequirement(requirements[j], confirmed)
  /\ UNCHANGED <<backend, projects, selectedProject, requirements, selectedRequirement,
                 loading, message, timers, showRequirementDetails, showGenerationResults,
                 generatedRequirements>>

ClickDeleteRequirement(j, confirmed) == Room(2) /\ DeleteRequirementEvent(j, confirmed)

DeleteRequirementSettles(t) ==
  /\ t.kind = "deleteRequirement"
  /\ UNCHANGED <<clicks, screenVars>>
  /\ CanNotify
  /\ \E o \in BackendDeleteRequirement(backend, t.pid, t.req.id) :
       LET r == ApiRequest(o.resp) IN
       /\ backend' = o.backend
       /\ IF r.ok
            THEN /\ ShowMessage("Requirement deleted successfully", "success")
                 /\ IF t.cSel = t.req.id
                      THEN selectedRequirement' = Null /\ showRequirementDetails' = FALSE
                      ELSE UNCHANGED <<selectedRequirement, showRequirementDetails>>
                 /\ tasks' = (tasks (-) One(t)) (+) One(LoadRequirementsTask(t.pid))
                               (+) One(LoadProjectsTask)
                 /\ last' = Event("deleteRequirement", t.req.id, "ok", o.resp)
            ELSE /\ ShowMessage("Failed to delete requirement", "error")
                 /\ tasks' = tasks (-) One(t)
                 /\ last' = Event("deleteRequirement", t.req.id, "fail", o.resp)
                 /\ UNCHANGED <<selectedRequirement, showRequirementDetails>>
  /\ UNCHANGED <<projects, selectedProject, requirements, loading,
                 showGenerationResults, generatedRequirements>>

-----------------------------------------------------------------------------
\* Analyze, enhance, apply an enhancement

\* requirements.map(req => req.id === id ? updated : req)
ReplaceById(reqs, id, updated) ==
  [k \in DOMAIN reqs |-> IF reqs[k].id = id THEN updated ELSE reqs[k]]

\* handleAnalyzeRequirement before its await; it closes over requirements and
\* selectedRequirement.
HandleAnalyzeRequirement(requirement) ==
  /\ loading' = TRUE
  /\ tasks' = tasks (+) One(Task("analyze", requirement.projectId, requirement,
                                 requirements, SelectedId(selectedRequirement), <<>>))
  /\ last' = Event("analyze", requirement.id, "call", 0)

\* The Analyze button of the list: rendered for a Draft requirement, disabled={loading}.
ClickAnalyzeInList(j) ==
  /\ selectedProject # Null
  /\ requirements[j].status = "Draft"
  /\ ~loading
  /\ Room(2) /\ Click /\ UNCHANGED screenVars
  /\ HandleAnalyzeRequirement(requirements[j])
  /\ UNCHANGED <<backend, projects, selectedProject, requirements, selectedRequirement,
                 message, timers, showRequirementDetails, showGenerationResults,
                 generatedRequirements>>

\* The Analyze button of the details view, which also closes the view.
ClickAnalyzeInDetails ==
  /\ showRequirementDetails /\ selectedRequirement # Null
  /\ selectedRequirement.status = "Draft"
  /\ ~loading
  /\ Room(2) /\ Click /\ UNCHANGED screenVars
  /\ HandleAnalyzeRequirement(selectedRequirement)
  /\ showRequirementDetails' = FALSE
  /\ UNCHANGED <<backend, projects, selectedProject, requirements, selectedRequirement,
                 message, timers, showGenerationResults, generatedRequirements>>

\* handleAnalyzeRequirement called on any requirement of the list, whatever the
\* buttons render.
CallAnalyzeRequirement(j) ==
  /\ Room(2) /\ Click /\ UNCHANGED screenVars
  /\ HandleAnalyzeRequirement(requirements[j])
  /\ UNCHANGED <<backend, projects, selectedProject, requirements, selectedRequirement,
                 message, timers, showRequirementDetails, showGenerationResults,
                 generatedRequirements>>

\* The update as it would be if the issues of a prior analysis were kept.
AnalyzedRequirementMerging(requirement, result) ==
  [requirement EXCEPT
     !.status = "Analyzed",
     !.qualityScore = result.overallScore,
     !.analysis = IF requirement.analysis = Null THEN result
                  ELSE [result EXCEPT !.issues = requirement.analysis.issues \o @]]

AnalyzedRequirement(requirement, result) ==
  [requirement EXCEPT !.status = "Analyzed",
                      !.qualityScore = result.overallScore,
                      !.analysis = result]

\* The answers an analyze call may get: the backend handles it now, or it has
\* handled it already and the answer (kept in arg) is on its way.
AnalyzeOutcomes(t) ==
  IF t.arg = <<>> THEN BackendAnalyze(backend, t.pid, t.req.id)
  ELSE {[backend |-> backend, resp |-> t.arg]}

AnalyzeSettles(t) ==
  /\ t.kind = "analyze"
  /\ UNCHANGED <<clicks, screenVars>>
  /\ CanNotify
  /\ \E o \in AnalyzeOutcomes(t) :
       LET r == ApiRequest(o.resp) IN
       /\ backend' = o.backend
       /\ IF r.ok
            THEN LET updatedRequirement == AnalyzedRequirement(t.req, r.data) IN
                 /\ requirements' = ReplaceById(t.cReqs, t.req.id, updatedRequirement)
                 /\ IF t.cSel = t.req.id
                      THEN selectedRequirement' = updatedRequirement
                      ELSE UNCHANGED selectedRequirement
                 /\ ShowMessage("Requirement analyzed successfully", "success")
                 /\ tasks' = (tasks (-) One(t)) (+) One(LoadRequirementsTask(t.pid))
                               (+) One(LoadProjectsTask)
                 /\ last' = Event("analyze", t.req.id, "ok", r.data)
                              @@ [prior |-> t.req.analysis]
            ELSE /\ ShowMessage("Failed to analyze requirement", "error")
                 /\ tasks' = tasks (-) One(t)
                 /\ last' = Event("analyze", t.req.id, "fail", 0)
                 /\ UNCHANGED <<requirements, selectedRequirement>>
  /\ loading' = FALSE
  /\ UNCHANGED <<projects, selectedProject, showRequirementDetails,
                 showGenerationResults, generatedRequirements>>

\* handleEnhanceRequirement as it would be without its status guard.
HandleEnhanceRequirementUnguarded(requirement) ==
  /\ loading' = TRUE
  /\ tasks' = tasks (+) One(Task("enhance", requirement.projectId, requirement,
                                 requirements, SelectedId(selectedRequirement), <<>>))
  /\ last' = Event("enhance", requirement.id, "call", requirement.status)
  /\ UNCHANGED <<message, timers>>

\* handleEnhanceRequirement before its await.
HandleEnhanceRequirement(requirement) ==
  IF requirement.status # "Analyzed"
    THEN /\ ShowMessage("Requirement must be analyzed first", "error")
         /\ last' = Event("enhance", requirement.id, "rejected", requirement.status)
         /\ UNCHANGED <<tasks, loading>>
    ELSE /\ loading' = TRUE
         /\ tasks' = tasks (+) One(Task("enhance", requirement.projectId, requirement,
                                        requirements, SelectedId(selectedRequirement),
                                        <<>>))
         /\ last' = Event("enhance", requirement.id, "call", requirement.status)
         /\ UNCHANGED <<message, timers>>

\* The Enhance button of the list: rendered for an Analyzed requirement.
ClickEnhanceInList(j) ==
  /\ selectedProject # Null
  /\ requirements[j].status = "Analyzed"
  /\ ~loading
  /\ Room(1) /\ CanNotify /\ Click /\ UNCHANGED screenVars
  /\ HandleEnhanceRequirement(requirements[j])
  /\ UNCHANGED <<backend, projects, selectedProject, requirements, selectedRequirement,
                 showRequirementDetails, showGenerationResults, generatedRequirements>>

ClickEnhanceInDetails ==
  /\ showRequirementDetails /\ selectedRequirement # Null
  /\ selectedRequirement.status = "Analyzed"
  /\ ~loading
  /\ Room(1) /\ CanNotify /\ Click /\ UNCHANGED screenVars
  /\ HandleEnhanceRequirement(selectedRequirement)
  /\ UNCHANGED <<backend, projects, selectedProject, requirements, selectedRequirement,
                 showRequirementDetails, showGenerationResults, generatedRequirements>>

\* handleEnhanceRequirement called on any requirement of the list, whatever the
\* buttons render.
CallEnhanceRequirement(j) ==
  /\ Room(1) /\ CanNotify /\ Click /\ UNCHANGED screenVars
  /\ HandleEnhanceRequirement(requirements[j])
  /\ UNCHANGED <<backend, projects, selectedProject, requirements, selectedRequirement,
                 showRequirementDetails, showGenerationResults, generatedRequirements>>

EnhancedRequirement(requirement, enhancementResult) ==
  [requirement EXCEPT !.status = "Enhanced", !.enhancements = enhancementResult]

EnhanceSettles(t) ==
  /\ t.kind = "enhance"
  /\ UNCHANGED <<clicks, screenVars>>
  /\ CanNotify
  /\ \E o \in BackendEnhance(backend, t.pid, t.req.id) :
       LET r == ApiRequest(o.resp) IN
       /\ backend' = o.backend
       /\ IF r.ok
            THEN LET updatedRequirement == EnhancedRequirement(t.req, r.data) IN
                 /\ requirements' = ReplaceById(t.cReqs, t.req.id, updatedRequirement)
                 /\ IF t.cSel = t.req.id
                      THEN selectedRequirement' = updatedRequirement
                      ELSE UNCHANGED selectedRequirement
                 /\ ShowMessage("Enhancement generated successfully", "success")
                 /\ tasks' = (tasks (-) One(t)) (+) One(LoadRequirementsTask(t.pid))
                 /\ last' = Event("enhance", t.req.id, "ok", r.data)
            ELSE /\ ShowMessage("Failed to enhance requirement", "error")
                 /\ tasks' = tasks (-) One(t)
                 /\ last' = Event("enhance", t.req.id, "fail", 0)
                 /\ UNCHANGED <<requirements, selectedRequirement>>
  /\ loading' = FALSE
  /\ UNCHANGED <<projects, selectedProject, showRequirementDetails,
                 showGenerationResults, generatedRequirements>>

\* handleApplyEnhancement before its await: it works on selectedRequirement.
HandleApplyEnhancement(enhancementIndex) ==
  /\ loading' = TRUE
  /\ tasks' = tasks (+) One(Task("apply", selectedRequirement.projectId,
                                 selectedRequirement, requirements, 0, enhancementIndex))
  /\ last' = Event("apply", selectedRequirement.id, "call", enhancementIndex)

\* An Apply Enhancement button: one per enhancement of the selected requirement, in
\* the details view, disabled={loading}.
ClickApplyEnhancement(enhancementIndex) ==
  /\ showRequirementDetails /\ selectedRequirement # Null
  /\ selectedRequirement.enhancements # Null
  /\ enhancementIndex \in DOMAIN selectedRequirement.enhancements.enhancements
  /\ ~loading
  /\ Room(2) /\ Click /\ UNCHANGED screenVars
  /\ HandleApplyEnhancement(enhancementIndex)
  /\ UNCHANGED <<backend, projects, selectedProject, requirements, selectedRequirement,
                 message, timers, showRequirementDetails, showGenerationResults,
                 generatedRequirements>>

\* The update as it would be without the enhancement's score.
AppliedRequirementKeepingScore(requirement, enhancement) ==
  [requirement EXCEPT !.text = enhancement.text, !.status = "Enhanced"]

AppliedRequirement(requirement, enhancement) ==
  [requirement EXCEPT !.text = enhancement.text,
                      !.qualityScore = enhancement.qualityScore,
                      !.status = "Enhanced"]

ApplySettles(t) ==
  /\ t.kind = "apply"
  /\ UNCHANGED <<clicks, screenVars>>
  /\ CanNotify
  /\ LET enhancement == t.req.enhancements.enhancements[t.arg] IN
     \E o \in BackendUpdateRequirement(backend, t.pid, t.req.id, enhancement.text) :
       LET r == ApiRequest(o.resp) IN
       /\ backend' = o.backend
       /\ IF r.ok
            THEN LET updatedRequirement == AppliedRequirement(t.req, enhancement) IN
                 /\ requirements' = ReplaceById(t.cReqs, t.req.id, updatedRequirement)
                 /\ selectedRequirement' = updatedRequirement
                 /\ ShowMessage("Enhancement " \o ToString(t.arg) \o " applied successfully!",
                                "success")
                 /\ tasks' = (tasks (-) One(t)) (+) One(LoadRequirementsTask(t.pid))
                               (+) One(LoadProjectsTask)
                 /\ last' = Event("apply", t.req.id, "ok", t.arg)
            ELSE /\ ShowMessage("Failed to apply enhancement", "error")
                 /\ tasks' = tasks (-) One(t)
                 /\ last' = Event("apply", t.req.id, "fail", t.arg)
                 /\ UNCHANGED <<requirements, selectedRequirement>>
  /\ loading' = FALSE
  /\ UNCHANGED <<projects, selectedProject, showRequirementDetails,
                 showGenerationResults, generatedRequirements>>

-----------------------------------------------------------------------------
\* Generation of requirements from a user story

\* handleGenerateRequirements before its await.
HandleGenerateRequirements(userStory) ==
  IF selectedProject = Null \/ Trim(userStory) = <<>>
    THEN /\ ShowMessage("User story is required", "error")
         /\ last' = Event("generate", 0, "invalid", userStory)
         /\ UNCHANGED <<tasks, loading>>
    ELSE /\ loading' = TRUE
         /\ tasks' = tasks (+) One(Task("generate", selectedProject.id, Null, <<>>, 0,
                                        userStory))
         /\ last' = Event("generate", selectedProject.id, "call", userStory)
         /\ UNCHANGED <<message, timers>>

\* The Generate button of the generation form, disabled={loading}.
ClickGenerate(userStory) ==
  /\ ~loading
  /\ Room(1) /\ CanNotify /\ Click /\ UNCHANGED screenVars
  /\ HandleGenerateRequirements(userStory)
  /\ UNCHANGED <<backend, projects, selectedProject, requirements, selectedRequirement,
                 showRequirementDetails, showGenerationResults, generatedRequirements>>

\* The create calls of handleAddAllGeneratedRequirements, one per candidate.
RECURSIVE CreateCalls(_, _, _)
CreateCalls(pid, op, candidates) ==
  IF candidates = <<>> THEN EmptyBag
  ELSE One(Task("addAllCreate", pid, Null, <<>>, op, Head(candidates)))
         (+) CreateCalls(pid, op, Tail(candidates))

\* handleGenerateRequirements after its await as it would be if the candidates were
\* persisted at once, without waiting for the user.
GenerateSettlesPersisting(t) ==
  /\ t.kind = "generate"
  /\ UNCHANGED <<clicks, screenVars>>
  /\ CanNotify
  /\ \E o \in BackendGenerate(backend, t.pid) :
       LET r == ApiRequest(o.resp) IN
       /\ backend' = o.backend
       /\ IF r.ok
            THEN /\ generatedRequirements' = r.data.requirements
                 /\ showGenerationResults' = TRUE
                 /\ ShowMessage("Generated " \o ToString(Len(r.data.requirements))
                                  \o " requirements successfully", "success")
                 /\ tasks' = (tasks (-) One(t))
                               (+) CreateCalls(t.pid, 0, r.data.requirements)
                 /\ last' = Event("generate", t.pid, "ok", Len(r.data.requirements))
            ELSE /\ ShowMessage("Failed to generate requirements", "error")
                 /\ tasks' = tasks (-) One(t)
                 /\ last' = Event("generate", t.pid, "fail", 0)
                 /\ UNCHANGED <<generatedRequirements, showGenerationResults>>
  /\ loading' = FALSE
  /\ UNCHANGED <<projects, selectedProject, requirements, selectedRequirement,
                 showRequirementDetails>>

GenerateSettles(t) ==
  /\ t.kind = "generate"
  /\ UNCHANGED <<clicks, screenVars>>
  /\ CanNotify
  /\ \E o \in BackendGenerate(backend, t.pid) :
       LET r == ApiRequest(o.resp) IN
       /\ backend' = o.backend
       /\ tasks' = tasks (-) One(t)
       /\ IF r.ok
            THEN /\ generatedRequirements' = r.data.requirements
                 /\ showGenerationResults' = TRUE
                 /\ ShowMessage("Generated " \o ToString(Len(r.data.requirements))
                                  \o " requirements successfully", "success")
                 /\ last' = Event("generate", t.pid, "ok", Len(r.data.requirements))
            ELSE /\ ShowMessage("Failed to generate requirements", "error")
                 /\ last' = Event("generate", t.pid, "fail", 0)
                 /\ UNCHANGED <<generatedRequirements, showGenerationResults>>
  /\ loading' = FALSE
  /\ UNCHANGED <<projects, selectedProject, requirements, selectedRequirement,
                 showRequirementDetails>>

\* The close button and the backdrop of the results: setShowGenerationResults(false).
CloseGenerationResults ==
  /\ showGenerationResults
  /\ Click /\ UNCHANGED screenVars
  /\ showGenerationResults' = FALSE
  /\ last' = Event("closeGenerationResults", 0, "ui", 0)
  /\ UNCHANGED <<backend, projects, selectedProject, requirements, selectedRequirement,
                 loading, message, timers, showRequirementDetails, generatedRequirements,
                 tasks>>

\* handleAddGeneratedRequirement before its await: no check of the candidate's text,
\* and a silent return without a selected project.
HandleAddGeneratedRequirement(generatedReq) ==
  IF selectedProject = Null
    THEN /\ last' = Event("addGenerated", 0, "ignored", generatedReq.text)
         /\ UNCHANGED tasks
    ELSE /\ tasks' = tasks (+) One(Task("addGenerated", selectedProject.id, Null, <<>>, 0,
                                        generatedReq))
         /\ last' = Event("addGenerated", selectedProject.id, "call", generatedReq.text)

\* The Add button of a candidate (no disabled attribute).
ClickAddGenerated(k) ==
  /\ showGenerationResults
  /\ Room(2) /\ Click /\ UNCHANGED screenVars
  /\ backend.nextRid + PendingCreates <= MaxReqs
  /\ HandleAddGeneratedRequirement(generatedRequirements[k])
  /\ UNCHANGED <<backend, projects, selectedProject, requirements, selectedRequirement,
                 loading, message, timers, showRequirementDetails, showGenerationResults,
                 generatedRequirements>>

AddGeneratedSettles(t) ==
  /\ t.kind = "addGenerated"
  /\ UNCHANGED <<clicks, screenVars>>
  /\ CanNotify
  /\ \E o \in BackendCreateRequirement(backend, t.pid, t.arg.text) :
       LET r == ApiRequest(o.resp) IN
       /\ backend' = o.backend
       /\ IF r.ok
            THEN /\ ShowMessage("Added \"" \o t.arg.title \o "\" to project", "success")
                 /\ tasks' = (tasks (-) One(t)) (+) One(LoadRequirementsTask(t.pid))
                               (+) One(LoadProjectsTask)
                 /\ last' = Event("addGenerated", r.data.id, "ok", t.arg.text)
            ELSE /\ ShowMessage("Failed to add generated requirement", "error")
                 /\ tasks' = tasks (-) One(t)
                 /\ last' = Event("addGenerated", 0, "fail", t.arg.text)
  /\ UNCHANGED <<projects, selectedProject, requirements, selectedRequirement, loading,
                 showRequirementDetails, showGenerationResults, generatedRequirements>>

\* The handler suspended at `await Promise.all(promises)`: it closed over
\* selectedProject and generatedRequirements; pending counts the promises that have
\* not resolved yet.
AwaitAll(pid, op, n, pending) ==
  Task("addAll", pid, Null, <<>>, op, [n |-> n, pending |-> pending])

\* handleAddAllGeneratedRequirements before its await: a silent return without a
\* selected project or without candidates, else every call is issued at once.
HandleAddAllGeneratedRequirements ==
  IF selectedProject = Null \/ Len(generatedRequirements) = 0
    THEN /\ last' = Event("addAll", 0, "ignored", 0)
         /\ UNCHANGED <<tasks, loading>>
    ELSE LET op == clicks + 1
             n == Len(generatedRequirements) IN
         /\ loading' = TRUE
         /\ tasks' = tasks (+) CreateCalls(selectedProject.id, op, generatedRequirements)
                            (+) One(AwaitAll(selectedProject.id, op, n, n))
         /\ last' = Event("addAll", selectedProject.id, "call", op)

\* Add All Requirements: rendered with at least one candidate, disabled={loading}.
ClickAddAllGenerated ==
  /\ showGenerationResults
  /\ Len(generatedRequirements) > 0
  /\ ~loading
  /\ Room(IF Len(generatedRequirements) = 1 THEN 2 ELSE Len(generatedRequirements))
  /\ Click /\ UNCHANGED screenVars
  /\ backend.nextRid + PendingCreates <= MaxReqs
  /\ HandleAddAllGeneratedRequirements
  /\ UNCHANGED <<backend, projects, selectedProject, requirements, selectedRequirement,
                 message, timers, showRequirementDetails, showGenerationResults,
                 generatedRequirements>>

\* One create call of an add-all settles.  Promise.all rejects with the first
\* rejection and resolves with the last resolution; once it has rejected the handler
\* has run its catch and its finally, and the calls still in flight settle unobserved.
AddAllCreateSettles(t) ==
  /\ t.kind = "addAllCreate"
  /\ UNCHANGED <<clicks, screenVars>>
  /\ CanNotify
  /\ \E o \in BackendCreateRequirement(backend, t.pid, t.arg.text) :
       LET r == ApiRequest(o.resp)
           waiting == {w \in BagToSet(tasks) : w.kind = "addAll" /\ w.cSel = t.cSel}
       IN
       /\ backend' = o.backend
       /\ IF waiting = {}
            THEN /\ tasks' = tasks (-) One(t)
                 /\ last' = Event("addAllCreate", t.pid, "unobserved", t.cSel)
                 /\ UNCHANGED <<loading, message, timers, showGenerationResults,
                                generatedRequirements>>
            ELSE LET w == CHOOSE x \in waiting : TRUE IN
                 IF ~r.ok
                   THEN /\ ShowMessage("Failed to add some generated requirements", "error")
                        /\ loading' = FALSE
                        /\ tasks' = (tasks (-) One(t)) (-) One(w)
                        /\ last' = Event("addAll", t.pid, "fail", t.cSel)
                        /\ UNCHANGED <<showGenerationResults, generatedRequirements>>
                 ELSE IF w.arg.pending > 1
                   THEN /\ tasks' = ((tasks (-) One(t)) (-) One(w))
                                      (+) One(AwaitAll(w.pid, w.cSel, w.arg.n,
                                                       w.arg.pending - 1))
                        /\ last' = Event("addAllCreate", t.pid, "resolved", t.cSel)
                        /\ UNCHANGED <<loading, message, timers, showGenerationResults,
                                       generatedRequirements>>
                   ELSE /\ showGenerationResults' = FALSE
                        /\ generatedRequirements' = <<>>
                        /\ ShowMessage("Added all " \o ToString(w.arg.n)
                                         \o " generated requirements to project", "success")
                        /\ loading' = FALSE
                        /\ tasks' = ((tasks (-) One(t)) (-) One(w))
                                      (+) One(LoadRequirementsTask(w.pid))
                                      (+) One(LoadProjectsTask)
                        /\ last' = Event("addAll", t.pid, "ok", t.cSel)
  /\ UNCHANGED <<projects, selectedProject, requirements, selectedRequirement,
                 showRequirementDetails>>

\* The timer of a showMessage fires: setMessage('').
TimerFires ==
  /\ timers > 0
  /\ timers' = timers - 1
  /\ message' = ""
  /\ last' = Event("timer", 0, "fired", 0)
  /\ UNCHANGED <<dashVars, screenVars, loading, tasks, clicks>>

Next ==
  \/ \E t \in BagToSet(tasks) : LoadProjectsSettles(t)
  \/ \E t \in BagToSet(tasks) : LoadRequirementsSettles(t)
  \/ \E j \in DOMAIN projects : SelectProject(j)
  \/ \E name \in InputTexts : ClickCreateProject(name)
  \/ \E t \in BagToSet(tasks) : CreateProjectSettles(t)
  \/ \E name \in InputTexts : ClickEditProject(name)
  \/ \E t \in BagToSet(tasks) : EditProjectSettles(t)
  \/ \E j \in DOMAIN projects, c \in BOOLEAN : ClickDeleteProject(j, c)
  \/ \E t \in BagToSet(tasks) : DeleteProjectSettles(t)
  \/ \E j \in DOMAIN requirements : ViewDetails(j)
  \/ CloseDetails
  \/ \E j \in DOMAIN requirements : OpenEditRequirement(j)
  \/ \E text \in InputTexts : ClickAddRequirement(text)
  \/ \E t \in BagToSet(tasks) : AddRequirementSettles(t)
  \/ \E text \in InputTexts : ClickEditRequirement(text)
  \/ \E t \in BagToSet(tasks) : EditRequirementSettles(t)
  \/ \E j \in DOMAIN requirements, c \in BOOLEAN : ClickDeleteRequirement(j, c)
  \/ \E t \in BagToSet(tasks) : DeleteRequirementSettles(t)
  \/ \E j \in DOMAIN requirements : ClickAnalyzeInList(j)
  \/ ClickAnalyzeInDetails
  \/ \E t \in BagToSet(tasks) : AnalyzeSettles(t)
  \/ \E j \in DOMAIN requirements : ClickEnhanceInList(j)
  \/ ClickEnhanceInDetails
  \/ \E t \in BagToSet(tasks) : EnhanceSettles(t)
  \/ \E k \in 1..2 : ClickApplyEnhancement(k)
  \/ \E t \in BagToSet(tasks) : ApplySettles(t)
  \/ \E userStory \in InputTexts : ClickGenerate(userStory)
  \/ \E t \in BagToSet(tasks) : GenerateSettles(t)
  \/ CloseGenerationResults
  \/ \E k \in DOMAIN generatedRequirements : ClickAddGenerated(k)
  \/ \E t \in BagToSet(tasks) : AddGeneratedSettles(t)
  \/ ClickAddAllGenerated
  \/ \E t \in BagToSet(tasks) : AddAllCreateSettles(t)
  \/ TimerFires

Spec == Init /\ [][Next]_vars

NextCall ==
  \/ Next
  \/ \E j \in DOMAIN requirements : CallEnhanceRequirement(j)
  \/ \E j \in DOMAIN requirements : CallAnalyzeRequirement(j)

SpecCall == Init /\ [][NextCall]_vars
-----------------------------------------------------------------------------
\* A slow answer: the dashboard with a project selected and its requirements loaded,
\* where the backend may handle an analyze call well before its answer arrives, and
\* the user deletes the requirement in between.

InitRace ==
  /\ backend \in InitBackends
  /\ projects = ListProjects(backend)
  /\ selectedProject = projects[1]
  /\ requirements = ListRequirements(backend, projects[1].id)
  /\ selectedRequirement = Null
  /\ loading = FALSE
  /\ message = ""
  /\ timers = 0
  /\ showRequirementDetails = FALSE
  /\ showGenerationResults = FALSE
  /\ generatedRequirements = <<>>
  /\ view = "projects"
  /\ analysisResult = Null
  /\ enhancementResults = Null
  /\ selectedEnhancement = Null
  /\ batch = <<>>
  /\ isAnalyzing = FALSE
  /\ currentSimulation = Null
  /\ simulationHistory = <<>>
  /\ score = 0
  /\ painted = Null
  /\ apiStatus = [status |-> "unknown", loading |-> TRUE]
  /\ tasks = EmptyBag
  /\ clicks = 0
  /\ last = Event("loadRequirements", projects[1].id, "ok", 0)

\* The backend handles an analyze call; its answer is on its way.
BackendAnswersAnalyze(t) ==
  /\ t.kind = "analyze" /\ t.arg = <<>>
  /\ \E o \in BackendAnalyze(backend, t.pid, t.req.id) :
       /\ backend' = o.backend
       /\ tasks' = (tasks (-) One(t)) (+) One([t EXCEPT !.arg = o.resp])
  /\ last' = Event("analyze", t.req.id, "handled", 0)
  /\ UNCHANGED <<projects, selectedProject, requirements, selectedRequirement,
                 showRequirementDetails, showGenerationResults, generatedRequirements,
                 screenVars, loading, message, timers, clicks>>

NextRace ==
  \/ \E j \in DOMAIN requirements : ClickAnalyzeInList(j)
  \/ \E t \in BagToSet(tasks) : BackendAnswersAnalyze(t)
  \/ \E t \in BagToSet(tasks) : AnalyzeSettles(t)
  \/ \E j \in DOMAIN requirements, c \in BOOLEAN : DeleteRequirementEvent(j, c)
  \/ \E t \in BagToSet(tasks) : DeleteRequirementSettles(t)
  \/ \E t \in BagToSet(tasks) : LoadRequirementsSettles(t)
  \/ \E t \in BagToSet(tasks) : LoadProjectsSettles(t)
  \/ TimerFires

SpecRace == InitRace /\ [][NextRace]_vars

-----------------------------------------------------------------------------
\* Notifications that overlap: the dashboard where a message may be shown while the
\* timer of an earlier one is pending.  setTimeout callbacks with the same delay
\* run in the order in which they were set, so the timer that fires is the oldest
\* one pending and the message on display belongs to the youngest.

NextTimers ==
  \/ \E name \in InputTexts : CreateProjectEvent(name)
  \/ \E t \in BagToSet(tasks) : CreateProjectSettles(t)
  \/ \E t \in BagToSet(tasks) : LoadProjectsSettles(t)
  \/ TimerFires

SpecTimers == Init /\ [][NextTimers]_vars

-----------------------------------------------------------------------------
\* The standalone screens: Dashboard.tsx, RequirementAnalyzer.tsx, BatchAnalyzer.tsx

ScreenViews == {"dashboard", "analyzer", "batch", "simulation"}

Copies(x, n) == [i \in 1..n |-> x]

\* A text of n requirement lines followed by b blank lines.
Lines(n, b) == Copies(<<"r">>, n) \o Copies(<<" ">>, b)

BatchSizes == {0, 1, BatchLimit, BatchLimit + 1}

BatchInputs == {Lines(n, b) : n \in BatchSizes, b \in 0..1}

\* text.split('\n').filter(line => line.trim()).map(line => line.trim())
NonBlankLines(lines) ==
  LET kept == SelectSeq(lines, LAMBDA l : Trim(l) # <<>>)
  IN [i \in DOMAIN kept |-> Trim(kept[i])]

\* text.trim() is empty: every line is blank.
AllBlank(lines) == \A i \in DOMAIN lines : Trim(lines[i]) = <<>>

\* The stateless analysis endpoints.
BackendAnalyzeText == {Ok(a) : a \in Analyses} \cup FailureResponses

BackendEnhanceText == {Ok(e) : e \in EnhancementResponses} \cup FailureResponses

BackendBatchAnalyze(n) == {Ok(Copies(a, n)) : a \in Analyses} \cup FailureResponses

\* The fetch wrappers of Dashboard.tsx: throw on a rejected fetch, on !response.ok
\* and on a body that is not JSON.
FetchJson(resp) ==
  IF resp.status \in 200..299 /\ resp.hasBody
    THEN [ok |-> TRUE, data |-> resp.body]
    ELSE [ok |-> FALSE]

\* The axios instance of services/api: rejects on no response and on a non-2xx status.
AxiosRequest(resp) ==
  IF resp.status \in 200..299
    THEN [ok |-> TRUE, data |-> resp.body]
    ELSE [ok |-> FALSE]

\* antd's message.success / message.error / message.warning.
AntMessage(text, type) ==
  /\ message' = type \o ": " \o text
  /\ UNCHANGED timers

\* checkApiStatus runs when the dashboard mounts.
TestConnectionTask == Task("testConnection", 0, Null, <<>>, 0, <<>>)

InitScreens ==
  /\ backend = [projects |-> {}, reqs |-> {}, nextPid |-> 1, nextRid |-> 1]
  /\ projects = <<>>
  /\ selectedProject = Null
  /\ requirements = <<>>
  /\ selectedRequirement = Null
  /\ loading = FALSE
  /\ message = ""
  /\ timers = 0
  /\ showRequirementDetails = FALSE
  /\ showGenerationResults = FALSE
  /\ generatedRequirements = <<>>
  /\ view \in ScreenViews
  /\ analysisResult = Null
  /\ enhancementResults = Null
  /\ selectedEnhancement = Null
  /\ batch = <<>>
  /\ isAnalyzing = FALSE
  /\ currentSimulation = Null
  /\ simulationHistory = <<>>
  /\ score = 0
  /\ painted = Null
  /\ apiStatus = [status |-> "unknown", loading |-> TRUE]
  /\ tasks = (IF view = "dashboard" THEN One(TestConnectionTask) ELSE EmptyBag)
  /\ clicks = 0
  /\ last = Event("mount", 0, "ui", 0)

\* --- Dashboard.tsx

DashboardHandleAnalyze(text) ==
  IF Trim(text) = <<>>
    THEN /\ ShowMessage("Please enter a requirement to analyze", "error")
         /\ last' = Event("analyzeText", 0, "invalid", 0)
         /\ UNCHANGED <<tasks, loading>>
    ELSE /\ loading' = TRUE
         /\ tasks' = tasks (+) One(Task("dashboardAnalyze", 0, Null, <<>>, 0, text))
         /\ last' = Event("analyzeText", 0, "call", 0)
         /\ UNCHANGED <<message, timers>>

\* Analyze Quality: disabled={loading || !requirement.trim()}
DashboardClickAnalyze(text) ==
  /\ view = "dashboard"
  /\ ~loading /\ Trim(text) # <<>>
  /\ Room(1) /\ CanNotify /\ Click
  /\ DashboardHandleAnalyze(text)
  /\ UNCHANGED <<dashVars, screenVars>>

DashboardAnalyzeSettles(t) ==
  /\ t.kind = "dashboardAnalyze"
  /\ CanNotify
  /\ \E resp \in BackendAnalyzeText :
       LET r == FetchJson(resp) IN
       IF r.ok
         THEN /\ analysisResult' = r.data
              /\ ShowMessage("Analysis completed successfully", "success")
              /\ last' = Event("analyzeText", 0, "ok", r.data)
         ELSE /\ ShowMessage("Failed to analyze requirement", "error")
              /\ last' = Event("analyzeText", 0, "fail", 0)
              /\ UNCHANGED analysisResult
  /\ loading' = FALSE
  /\ tasks' = tasks (-) One(t)
  /\ UNCHANGED <<dashVars, simVars, paintVars, apiStatus, view, enhancementResults,
                 selectedEnhancement, batch,
                 isAnalyzing, clicks>>

DashboardHandleEnhance ==
  IF analysisResult = Null \/ "batchResults" \in DOMAIN analysisResult
    THEN /\ ShowMessage("Please analyze the requirement first", "error")
         /\ last' = Event("enhanceText", 0, "invalid", 0)
         /\ UNCHANGED <<tasks, loading>>
    ELSE /\ loading' = TRUE
         /\ tasks' = tasks (+) One(Task("dashboardEnhance", 0, Null, <<>>, 0,
                                        analysisResult.issues))
         /\ last' = Event("enhanceText", 0, "call", 0)
         /\ UNCHANGED <<message, timers>>

\* Enhance: rendered with a single analysis result, disabled={loading}
DashboardClickEnhance ==
  /\ view = "dashboard"
  /\ analysisResult # Null /\ ~("batchResults" \in DOMAIN analysisResult)
  /\ ~loading
  /\ Room(1) /\ CanNotify /\ Click
  /\ DashboardHandleEnhance
  /\ UNCHANGED <<dashVars, screenVars>>

DashboardEnhanceSettles(t) ==
  /\ t.kind = "dashboardEnhance"
  /\ CanNotify
  /\ \E resp \in BackendEnhanceText :
       LET r == FetchJson(resp) IN
       IF r.ok
         THEN /\ enhancementResults' = r.data
              /\ ShowMessage("Enhancement completed successfully", "success")
              /\ last' = Event("enhanceText", 0, "ok", 0)
         ELSE /\ ShowMessage("Failed to enhance requirement", "error")
              /\ last' = Event("enhanceText", 0, "fail", 0)
              /\ UNCHANGED enhancementResults
  /\ loading' = FALSE
  /\ tasks' = tasks (-) One(t)
  /\ UNCHANGED <<dashVars, simVars, paintVars, apiStatus, view, analysisResult,
                 selectedEnhancement, batch,
                 isAnalyzing, clicks>>

\* handleBatchAnalyze of Dashboard.tsx: the only local check is for an empty list.
DashboardHandleBatchAnalyze(lines) ==
  LET reqs == NonBlankLines(lines) IN
  IF Len(reqs) = 0
    THEN /\ ShowMessage("Please enter at least one requirement", "error")
         /\ last' = Event("batchAnalyze", 0, "invalid", view)
         /\ UNCHANGED <<tasks, loading>>
    ELSE /\ loading' = TRUE
         /\ tasks' = tasks (+) One(Task("dashboardBatch", 0, Null, <<>>, 0, reqs))
         /\ last' = Event("batchAnalyze", Len(reqs), "call", view)
         /\ UNCHANGED <<message, timers>>

\* Analyze Batch: disabled={loading || !batchRequirements.trim()}
DashboardClickBatchAnalyze(lines) ==
  /\ view = "dashboard"
  /\ ~loading /\ ~AllBlank(lines)
  /\ Room(1) /\ CanNotify /\ Click
  /\ DashboardHandleBatchAnalyze(lines)
  /\ UNCHANGED <<dashVars, screenVars>>

DashboardBatchSettles(t) ==
  /\ t.kind = "dashboardBatch"
  /\ CanNotify
  /\ \E resp \in BackendBatchAnalyze(Len(t.arg)) :
       LET r == FetchJson(resp) IN
       IF r.ok
         THEN /\ analysisResult' = [batchResults |-> r.data]
              /\ ShowMessage("Batch analysis completed for " \o ToString(Len(r.data))
                               \o " requirements", "success")
              /\ last' = Event("batchAnalyze", Len(t.arg), "ok", view)
         ELSE /\ ShowMessage("Failed to perform batch analysis", "error")
              /\ last' = Event("batchAnalyze", Len(t.arg), "fail", view)
              /\ UNCHANGED analysisResult
  /\ loading' = FALSE
  /\ tasks' = tasks (-) One(t)
  /\ UNCHANGED <<dashVars, simVars, paintVars, apiStatus, view, enhancementResults,
                 selectedEnhancement, batch,
                 isAnalyzing, clicks>>

\* The answers of the health endpoint: healthy, not healthy, a body that is the
\* JSON null, or a failure.
HealthBodies ==
  { [status |-> "healthy", message |-> "ok", perplexityConnected |-> TRUE],
    [status |-> "unhealthy", message |-> "no model", perplexityConnected |-> FALSE] }

JsonNull == [isNull |-> TRUE]

BackendHealth == {Ok(x) : x \in HealthBodies \cup {JsonNull}} \cup FailureResponses

\* requirementsApi.testConnection: its own catch turns a rejected fetch, a non-2xx
\* answer and an unparsable body into a result with status 'error'; it never throws.
TestConnection(resp) ==
  IF resp.status \in 200..299 /\ resp.hasBody
    THEN resp.body
    ELSE [status |-> "error", message |-> "Failed to connect to API",
          perplexityConnected |-> FALSE]

\* checkApiStatus before its await.
CheckApiStatus ==
  /\ apiStatus' = [status |-> "unknown", loading |-> TRUE]
  /\ tasks' = tasks (+) One(TestConnectionTask)
  /\ last' = Event("checkApiStatus", 0, "call", 0)

\* The two buttons that call checkApiStatus: disabled={apiStatus.loading}
ClickCheckApiStatus ==
  /\ view = "dashboard"
  /\ ~apiStatus.loading
  /\ Room(1) /\ Click
  /\ CheckApiStatus
  /\ UNCHANGED <<dashVars, simVars, paintVars, view, analysisResult, enhancementResults,
                 selectedEnhancement, batch, isAnalyzing, loading, message, timers>>

\* checkApiStatus after its await: reading result.status of a null result throws
\* into the catch, every other result is healthy or degraded.
CheckApiStatusSettles(t) ==
  /\ t.kind = "testConnection"
  /\ \E resp \in BackendHealth :
       LET result == TestConnection(resp) IN
       /\ apiStatus' =
            IF result = JsonNull
              THEN [status |-> "error", loading |-> FALSE, perplexityConnected |-> FALSE,
                    message |-> "Failed to connect to API"]
              ELSE [status |-> IF result.status = "healthy" THEN "healthy" ELSE "degraded",
                    loading |-> FALSE,
                    perplexityConnected |-> result.perplexityConnected,
                    message |-> result.message]
       /\ last' = Event("checkApiStatus", 0,
                        IF resp.status \in 200..299 /\ resp.hasBody THEN "ok" ELSE "fail",
                        resp)
  /\ tasks' = tasks (-) One(t)
  /\ UNCHANGED <<dashVars, simVars, paintVars, view, analysisResult, enhancementResults,
                 selectedEnhancement, batch, isAnalyzing, loading, message, timers,
                 clicks>>

\* --- RequirementAnalyzer.tsx

\* The mock data the mutations fall back to when their call fails.
MockResult ==
  [overallScore |-> 65, issues |-> <<"ambiguity", "completeness", "verifiability">>]

MockEnhancements ==
  << [text |-> <<"m">>, qualityScore |-> 88],
     [text |-> <<"n">>, qualityScore |-> 85],
     [text |-> <<"o">>, qualityScore |-> 82] >>

AnalyzerHandleAnalyze(text) ==
  IF Trim(text) = <<>>
    THEN /\ AntMessage("Please enter a requirement to analyze", "warning")
         /\ last' = Event("analyzeText", 0, "invalid", 0)
         /\ UNCHANGED tasks
    ELSE /\ tasks' = tasks (+) One(Task("analysisMutation", 0, Null, <<>>, 0, text))
         /\ last' = Event("analyzeText", 0, "call", 0)
         /\ UNCHANGED <<message, timers>>

\* Analyze Quality: loading={analysisMutation.isPending} disabled={!requirement.trim()}
AnalyzerClickAnalyze(text) ==
  /\ view = "analyzer"
  /\ InFlight("analysisMutation") = 0 /\ Trim(text) # <<>>
  /\ Room(1) /\ Click
  /\ AnalyzerHandleAnalyze(text)
  /\ UNCHANGED <<dashVars, screenVars, loading>>

AnalysisMutationSettles(t) ==
  /\ t.kind = "analysisMutation"
  /\ \E resp \in BackendAnalyzeText :
       LET r == AxiosRequest(resp) IN
       IF r.ok
         THEN /\ analysisResult' = r.data
              /\ enhancementResults' = Null
              /\ selectedEnhancement' = Null
              /\ AntMessage("Analysis completed successfully!", "success")
              /\ last' = Event("analyzeText", 0, "ok", r.data)
         ELSE /\ AntMessage("Analysis failed. Using mock data for demonstration.", "error")
              /\ analysisResult' = MockResult
              /\ last' = Event("analyzeText", 0, "fail", 0)
              /\ UNCHANGED <<enhancementResults, selectedEnhancement>>
  /\ tasks' = tasks (-) One(t)
  /\ UNCHANGED <<dashVars, simVars, paintVars, apiStatus, view, batch, isAnalyzing,
                 loading, clicks>>

AnalyzerHandleEnhance ==
  IF analysisResult = Null
    THEN /\ last' = Event("enhanceText", 0, "ignored", 0)
         /\ UNCHANGED tasks
    ELSE /\ tasks' = tasks (+) One(Task("enhancementMutation", 0, Null, <<>>, 0,
                                        analysisResult.issues))
         /\ last' = Event("enhanceText", 0, "call", 0)

\* Generate Enhancements: rendered with an analysis result,
\* loading={enhancementMutation.isPending}
AnalyzerClickEnhance ==
  /\ view = "analyzer"
  /\ analysisResult # Null
  /\ InFlight("enhancementMutation") = 0
  /\ Room(1) /\ Click
  /\ AnalyzerHandleEnhance
  /\ UNCHANGED <<dashVars, screenVars, loading, message, timers>>

EnhancementMutationSettles(t) ==
  /\ t.kind = "enhancementMutation"
  /\ \E resp \in BackendEnhanceText :
       LET r == AxiosRequest(resp) IN
       IF r.ok
         THEN /\ enhancementResults' = r.data.enhancements
              /\ selectedEnhancement' = r.data.enhancements[1]
              /\ AntMessage("Generated " \o ToString(Len(r.data.enhancements))
                              \o " enhanced versions!", "success")
              /\ last' = Event("enhanceText", 0, "ok", 0)
         ELSE /\ AntMessage("Enhancement failed. Using mock data for demonstration.",
                            "error")
              /\ enhancementResults' = MockEnhancements
              /\ selectedEnhancement' = MockEnhancements[1]
              /\ last' = Event("enhanceText", 0, "fail", 0)
  /\ tasks' = tasks (-) One(t)
  /\ UNCHANGED <<dashVars, simVars, paintVars, apiStatus, view, analysisResult, batch,
                 isAnalyzing, loading, clicks>>

\* Clear All of the analyzer.
AnalyzerClearAll ==
  /\ view = "analyzer"
  /\ Click
  /\ analysisResult' = Null
  /\ enhancementResults' = Null
  /\ selectedEnhancement' = Null
  /\ last' = Event("clearAll", 0, "ui", 0)
  /\ UNCHANGED <<dashVars, simVars, paintVars, apiStatus, view, batch, isAnalyzing,
                 loading,
                 message, timers, tasks>>

\* --- BatchAnalyzer.tsx

BatchRequirement(id, text) ==
  [id |-> id, text |-> text, status |-> "pending", analysis |-> Null]

\* The file's non-blank lines, numbered from requirements.length + 1.
HandleFileUpload(lines) ==
  LET kept == NonBlankLines(lines)
      newReqs == [i \in DOMAIN kept |-> BatchRequirement(Len(batch) + i, kept[i])]
  IN /\ batch' = batch \o newReqs
     /\ AntMessage("Added " \o ToString(Len(newReqs)) \o " requirements", "success")
     /\ last' = Event("fileUpload", Len(newReqs), "ui", 0)

\* Upload: disabled={isAnalyzing}
ClickFileUpload(lines) ==
  /\ view = "batch"
  /\ ~isAnalyzing
  /\ Len(batch) + Len(lines) <= MaxBatch
  /\ Click
  /\ HandleFileUpload(lines)
  /\ UNCHANGED <<dashVars, simVars, paintVars, apiStatus, view, analysisResult,
                 enhancementResults, selectedEnhancement,
                 isAnalyzing, loading, tasks>>

BatchHandleAddRequirement(text) ==
  IF Trim(text) = <<>>
    THEN /\ AntMessage("Please enter a requirement", "warning")
         /\ last' = Event("batchAdd", 0, "invalid", 0)
         /\ UNCHANGED batch
    ELSE /\ batch' = Append(batch, BatchRequirement(Len(batch) + 1, Trim(text)))
         /\ AntMessage("Requirement added successfully!", "success")
         /\ last' = Event("batchAdd", Len(batch) + 1, "ui", 0)

\* Add Single Requirement (disabled={isAnalyzing}) and the OK of its form.
BatchClickAddRequirement(text) ==
  /\ view = "batch"
  /\ ~isAnalyzing
  /\ Len(batch) < MaxBatch
  /\ Click
  /\ BatchHandleAddRequirement(text)
  /\ UNCHANGED <<dashVars, simVars, paintVars, apiStatus, view, analysisResult,
                 enhancementResults, selectedEnhancement,
                 isAnalyzing, loading, tasks>>

\* The delete button of a row: disabled={isAnalyzing}
BatchHandleDeleteRequirement(k) ==
  /\ view = "batch"
  /\ ~isAnalyzing
  /\ Click
  /\ batch' = SubSeq(batch, 1, k - 1) \o SubSeq(batch, k + 1, Len(batch))
  /\ AntMessage("Requirement removed", "success")
  /\ last' = Event("batchDelete", batch[k].id, "ui", 0)
  /\ UNCHANGED <<dashVars, simVars, paintVars, apiStatus, view, analysisResult,
                 enhancementResults, selectedEnhancement,
                 isAnalyzing, loading, tasks>>

\* requirementsApi.batchAnalyze of services/api: the checks before the request.
BatchAnalyzeAccepts(texts) ==
  LET validRequirements == SelectSeq(texts, LAMBDA x : Trim(x) # <<>>)
  IN /\ Len(texts) # 0
     /\ Len(validRequirements) # 0
     /\ ~(Len(validRequirements) > BatchLimit)

SetStatus(reqs, status) == [i \in DOMAIN reqs |-> [reqs[i] EXCEPT !.status = status]]

BatchHandleBatchAnalyze ==
  IF Len(batch) = 0
    THEN /\ AntMessage("Please add some requirements first", "warning")
         /\ last' = Event("batchAnalyze", 0, "invalid", view)
         /\ UNCHANGED <<tasks, batch, isAnalyzing>>
    ELSE LET requirementTexts == [i \in DOMAIN batch |-> batch[i].text] IN
         /\ isAnalyzing' = TRUE
         /\ batch' = SetStatus(batch, "analyzing")
         /\ tasks' = tasks (+) One(Task("batchAnalysisMutation", 0, Null, <<>>, 0,
                                        requirementTexts))
         /\ last' = Event("batchAnalyze", Len(requirementTexts),
                          IF BatchAnalyzeAccepts(requirementTexts) THEN "call"
                                                                   ELSE "rejected",
                          view)
         /\ UNCHANGED <<message, timers>>

\* Analyze All: loading={isAnalyzing} disabled={requirements.length === 0}
BatchClickBatchAnalyze ==
  /\ view = "batch"
  /\ ~isAnalyzing /\ Len(batch) # 0
  /\ Room(1) /\ Click
  /\ BatchHandleBatchAnalyze
  /\ UNCHANGED <<dashVars, simVars, paintVars, apiStatus, view, analysisResult,
                 enhancementResults, selectedEnhancement,
                 loading>>

\* The mutation settles: batchAnalyze threw before its request, or the request
\* was answered.
BatchAnalysisMutationSettles(t) ==
  /\ t.kind = "batchAnalysisMutation"
  /\ \E resp \in BackendBatchAnalyze(Len(t.arg)) :
       LET r == IF BatchAnalyzeAccepts(t.arg) THEN AxiosRequest(resp) ELSE [ok |-> FALSE]
       IN IF r.ok
            THEN /\ batch' = [i \in DOMAIN batch |->
                                [batch[i] EXCEPT !.analysis = r.data[i],
                                                 !.status = "completed"]]
                 /\ AntMessage("Successfully analyzed " \o ToString(Len(r.data))
                                 \o " requirements!", "success")
                 /\ last' = Event("batchAnalyze", Len(t.arg), "ok", view)
            ELSE /\ batch' = SetStatus(batch, "error")
                 /\ AntMessage("Batch analysis failed. Please try again.", "error")
                 /\ last' = Event("batchAnalyze", Len(t.arg), "fail", view)
  /\ isAnalyzing' = FALSE
  /\ tasks' = tasks (-) One(t)
  /\ UNCHANGED <<dashVars, simVars, paintVars, apiStatus, view, analysisResult,
                 enhancementResults, selectedEnhancement,
                 loading, clicks>>

\* Clear All of the batch analyzer: disabled={isAnalyzing}
BatchClearAll ==
  /\ view = "batch"
  /\ ~isAnalyzing
  /\ Click
  /\ batch' = <<>>
  /\ AntMessage("All requirements cleared", "success")
  /\ last' = Event("clearAll", 0, "ui", 0)
  /\ UNCHANGED <<dashVars, simVars, paintVars, apiStatus, view, analysisResult,
                 enhancementResults, selectedEnhancement,
                 isAnalyzing, loading, tasks>>

\* --- BatchAnalyzer.tsx, StakeholderSimulation

StakeholderRoles == {"", "developer"}

Simulations == { [questions |-> <<"q">>, stakeholderRole |-> "developer"] }

Histories == { <<>>, << [id |-> 1, questionCount |-> 1] >> }

BackendSimulate == {Ok(x) : x \in Simulations} \cup FailureResponses

BackendSimulationHistory == {Ok(h) : h \in Histories} \cup FailureResponses

\* A bare fetch followed by `if (response.ok)` and response.json(): a rejected fetch
\* and a body that is not JSON throw, a non-2xx answer takes the else branch.
FetchIfOk(resp) ==
  IF resp.status = 0 THEN [ok |-> FALSE, thrown |-> TRUE]
  ELSE IF ~(resp.status \in 200..299) THEN [ok |-> FALSE, thrown |-> FALSE]
  ELSE IF ~resp.hasBody THEN [ok |-> FALSE, thrown |-> TRUE]
  ELSE [ok |-> TRUE, data |-> resp.body]

\* handleSimulateQuestions before its await: a silent return without a text or a role.
HandleSimulateQuestions(requirementText, selectedRole) ==
  IF Trim(requirementText) = <<>> \/ selectedRole = ""
    THEN /\ last' = Event("simulate", 0, "ignored", 0)
         /\ UNCHANGED <<tasks, loading>>
    ELSE /\ loading' = TRUE
         /\ tasks' = tasks (+) One(Task("simulate", 0, Null, <<>>, 0, requirementText))
         /\ last' = Event("simulate", 0, "call", 0)

\* Generate Questions: loading={loading} disabled={!requirementText.trim() || !selectedRole}
ClickSimulateQuestions(requirementText, selectedRole) ==
  /\ view = "simulation"
  /\ ~loading /\ Trim(requirementText) # <<>> /\ selectedRole # ""
  /\ Room(1) /\ Click
  /\ HandleSimulateQuestions(requirementText, selectedRole)
  /\ UNCHANGED <<dashVars, screenVars, message, timers>>

\* The simulation call settles.  A failure is written to the console only; on success
\* the handler goes on to `await fetchSimulationHistory()` before its finally.
SimulateSettles(t) ==
  /\ t.kind = "simulate"
  /\ \E resp \in BackendSimulate :
       LET r == FetchIfOk(resp) IN
       IF r.ok
         THEN /\ currentSimulation' = r.data
              /\ tasks' = (tasks (-) One(t))
                            (+) One(Task("simulationHistory", 0, Null, <<>>, 0, <<>>))
              /\ last' = Event("simulate", 0, "ok", 0)
              /\ UNCHANGED loading
         ELSE /\ loading' = FALSE
              /\ tasks' = tasks (-) One(t)
              /\ last' = Event("simulate", 0, "fail", resp.status)
              /\ UNCHANGED currentSimulation
  /\ UNCHANGED <<dashVars, paintVars, apiStatus, view, analysisResult, enhancementResults,
                 selectedEnhancement, batch, isAnalyzing, simulationHistory, message, timers, clicks>>

\* fetchSimulationHistory, awaited by handleSimulateQuestions: it catches its own
\* errors, and the handler's finally clears loading.
SimulationHistorySettles(t) ==
  /\ t.kind = "simulationHistory"
  /\ \E resp \in BackendSimulationHistory :
       LET r == FetchIfOk(resp) IN
       IF r.ok
         THEN /\ simulationHistory' = r.data
              /\ last' = Event("simulationHistory", 0, "ok", 0)
         ELSE /\ last' = Event("simulationHistory", 0, "fail", resp.status)
              /\ UNCHANGED simulationHistory
  /\ loading' = FALSE
  /\ tasks' = tasks (-) One(t)
  /\ UNCHANGED <<dashVars, paintVars, apiStatus, view, analysisResult, enhancementResults,
                 selectedEnhancement, batch, isAnalyzing, currentSimulation, message, timers, clicks>>

NextScreens ==
  \/ \E text \in InputTexts : DashboardClickAnalyze(text)
  \/ \E t \in BagToSet(tasks) : DashboardAnalyzeSettles(t)
  \/ DashboardClickEnhance
  \/ \E t \in BagToSet(tasks) : DashboardEnhanceSettles(t)
  \/ \E lines \in BatchInputs : DashboardClickBatchAnalyze(lines)
  \/ \E t \in BagToSet(tasks) : DashboardBatchSettles(t)
  \/ ClickCheckApiStatus
  \/ \E t \in BagToSet(tasks) : CheckApiStatusSettles(t)
  \/ \E text \in InputTexts : AnalyzerClickAnalyze(text)
  \/ \E t \in BagToSet(tasks) : AnalysisMutationSettles(t)
  \/ AnalyzerClickEnhance
  \/ \E t \in BagToSet(tasks) : EnhancementMutationSettles(t)
  \/ AnalyzerClearAll
  \/ \E lines \in BatchInputs : ClickFileUpload(lines)
  \/ \E text \in InputTexts : BatchClickAddRequirement(text)
  \/ \E k \in DOMAIN batch : BatchHandleDeleteRequirement(k)
  \/ BatchClickBatchAnalyze
  \/ \E t \in BagToSet(tasks) : BatchAnalysisMutationSettles(t)
  \/ BatchClearAll
  \/ \E text \in InputTexts, role \in StakeholderRoles : ClickSimulateQuestions(text, role)
  \/ \E t \in BagToSet(tasks) : SimulateSettles(t)
  \/ \E t \in BagToSet(tasks) : SimulationHistorySettles(t)
  \/ TimerFires

SpecScreens == InitScreens /\ [][NextScreens]_vars

-----------------------------------------------------------------------------
\* The colour of a quality score

\* An overallScore, a qualityScore or a rounded average: an integer from 0 to 100.
Scores == 0..100

\* getScoreColor of ProjectDashboard.tsx; the copies of Dashboard.tsx and
\* RequirementAnalyzer.tsx are the same text.
GetScoreColor(s) ==
  IF s >= 80 THEN "#52c41a"
  ELSE IF s >= 60 THEN "#faad14"
  ELSE "#f5222d"

\* getScoreColor of BatchAnalyzer.tsx: the status of an antd Progress.
BatchGetScoreColor(s) ==
  IF s >= 80 THEN "success"
  ELSE IF s >= 60 THEN "normal"
  ELSE "exception"

\* The valueStyle of the Average Score statistic of BatchAnalyzer.tsx.
AverageScoreColor(s) == IF s >= 70 THEN "#3f8600" ELSE "#cf1322"

\* The band a colour stands for: the greens, the orange, the reds.
Band(color) ==
  IF color \in {"#52c41a", "success", "#3f8600"} THEN "good"
  ELSE IF color \in {"#faad14", "normal"} THEN "warning"
  ELSE "critical"

InitColors ==
  /\ InitScreens
  /\ view = "batch"

\* A score arrives: an analysis, an enhancement or the average of a batch.
ReceiveScore(s) ==
  /\ painted = Null
  /\ score # s
  /\ score' = s
  /\ UNCHANGED <<dashVars, simVars, apiStatus, painted, view, analysisResult,
                 enhancementResults,
                 selectedEnhancement, batch, isAnalyzing, loading, message, timers,
                 tasks, clicks, last>>

\* A render: every place computes the colour of the score it shows.
Render ==
  /\ painted = Null
  /\ painted' = [id |-> 1,
                 list |-> GetScoreColor(score),
                 progress |-> BatchGetScoreColor(score),
                 average |-> AverageScoreColor(score)]
  /\ UNCHANGED <<dashVars, simVars, apiStatus, score, view, analysisResult,
                 enhancementResults,
                 selectedEnhancement, batch, isAnalyzing, loading, message, timers,
                 tasks, clicks, last>>

NextColors ==
  \/ \E s \in Scores : ReceiveScore(s)
  \/ Render

SpecColors == InitColors /\ [][NextColors]_vars

-----------------------------------------------------------------------------
\* The claims

\* The step puts one more call t in flight.
Spawned(t) == CopiesIn(t, tasks') > CopiesIn(t, tasks)

\* C1: in the project dashboard, invoking Enhance on a requirement whose status is
\* not Analyzed issues no network call, leaves projects, requirements, the selection
\* and the loading flag unchanged, and shows the 'must be analyzed first' error.
C1_EnhanceRejectedLocally ==
  [][(clicks' # clicks /\ last'.op = "enhance" /\ last'.val # "Analyzed")
       => /\ tasks' = tasks
          /\ backend' = backend
          /\ projects' = projects
          /\ requirements' = requirements
          /\ selectedProject' = selectedProject
          /\ selectedRequirement' = selectedRequirement
          /\ loading' = loading
          /\ message' = "error: Requirement must be analyzed first"]_vars

C1_Witness ==
  /\ last.op = "enhance" /\ last.out = "rejected" /\ last.val = "Draft"
  /\ message = "error: Requirement must be analyzed first"

\* What a successful Analyze of a requirement leaves in an entry.
IsAnalyzedWith(entry, a) ==
  /\ entry.status = "Analyzed"
  /\ entry.qualityScore = a.overallScore
  /\ entry.analysis = a

\* C2: after an Analyze call for requirement r succeeds, r's entry in the store has
\* status Analyzed, qualityScore equal to the response's overallScore and the response
\* as its analysis, and the selected requirement is updated the same way when r is
\* the selected one.
C2_AnalyzeUpdatesStore ==
  [][(clicks' = clicks /\ last'.op = "analyze" /\ last'.out = "ok")
       => /\ \E k \in DOMAIN requirements' : requirements'[k].id = last'.id
          /\ \A k \in DOMAIN requirements' :
               requirements'[k].id = last'.id => IsAnalyzedWith(requirements'[k], last'.val)
          /\ selectedRequirement'.id = last'.id
               => IsAnalyzedWith(selectedRequirement', last'.val)]_vars

\* C3: ApplyEnhancement(r, i) on success sets r.text and r.qualityScore to those of
\* enhancements[i] and r.status to Enhanced, in the requirements list and in the
\* selected requirement, for every index i of the attached response.
C3_ApplySetsTextScoreStatus ==
  [][(clicks' = clicks /\ last'.op = "apply" /\ last'.out = "ok")
       => \E t \in BagToSet(tasks) :
            /\ t.kind = "apply" /\ t.req.id = last'.id /\ t.arg = last'.val
            /\ ~Spawned(t) /\ CopiesIn(t, tasks') < CopiesIn(t, tasks)
            /\ LET e == t.req.enhancements.enhancements[t.arg]
                   Applied(x) == /\ x.text = e.text
                                 /\ x.qualityScore = e.qualityScore
                                 /\ x.status = "Enhanced"
               IN /\ selectedRequirement'.id = t.req.id
                  /\ Applied(selectedRequirement')
                  /\ \A k \in DOMAIN requirements' :
                       requirements'[k].id = t.req.id => Applied(requirements'[k])]_vars

C3_Witness ==
  /\ last.op = "apply" /\ last.out = "ok" /\ last.val = 2
  /\ selectedRequirement.text = <<"f">>
  /\ selectedRequirement.qualityScore = 82
  /\ selectedRequirement.status = "Enhanced"
  /\ \E k \in DOMAIN requirements : requirements[k] = selectedRequirement

\* A task in flight that is a network request: the batch mutation whose list
\* batchAnalyze refuses never sends one.
IsRequest(t) == t.kind = "batchAnalysisMutation" => BatchAnalyzeAccepts(t.arg)

RECURSIVE CountRequests(_, _)
CountRequests(ts, b) ==
  IF ts = {} THEN 0
  ELSE LET t == CHOOSE x \in ts : TRUE
       IN (IF IsRequest(t) THEN CopiesIn(t, b) ELSE 0) + CountRequests(ts \ {t}, b)

RequestsInFlight == CountRequests(BagToSet(tasks), tasks)

\* C4: batch analyze rejects a list of 0 items or of more than 50 items locally: in
\* every screen that offers batch analysis no network request is issued for it.
C4_BatchSizeRejectedLocally ==
  [][(clicks' # clicks /\ last'.op = "batchAnalyze"
        /\ (last'.id = 0 \/ last'.id > BatchLimit))
       => RequestsInFlight' = RequestsInFlight]_vars

\* The operations that send fields the user entered.
FormOps == {"createProject", "editProject", "addRequirement", "editRequirement",
            "generate", "addGenerated"}

\* C5: for every operation that sends user-entered fields, a required field that is
\* empty or whitespace-only means that no network call is issued, the operation stays
\* idle and a message is shown.
C5_BlankFieldRejected ==
  [][(clicks' # clicks /\ last'.op \in FormOps /\ Trim(last'.val) = <<>>)
       => /\ tasks' = tasks
          /\ loading' = loading
          /\ message' # ""
          /\ timers' = timers + 1]_vars

MutatingKinds == {"createProject", "editProject", "deleteProject", "addRequirement",
                  "editRequirement", "deleteRequirement", "addGenerated", "analyze",
                  "enhance", "apply", "generate"}

\* Two calls in flight that the same control triggered.
SameControl(t, u) ==
  /\ t.kind = u.kind
  /\ t.pid = u.pid
  /\ t.req.id = u.req.id
  /\ t.kind \in {"apply", "addGenerated"} => t.arg = u.arg

\* C6: for every mutating operation, while one instance is in flight its triggering
\* control is disabled: the same operation is never in flight twice.
C6_NoDuplicateSubmission ==
  \A t \in BagToSet(tasks) :
    t.kind \in MutatingKinds =>
      /\ CopiesIn(t, tasks) = 1
      /\ \A u \in BagToSet(tasks) : SameControl(t, u) => u = t

\* C7: when an operation's network call fails, the store (projects, requirements,
\* selection, and the results of the standalone and batch analyzers) is what it was,
\* and a notification is shown.
C7_FailureLeavesStore ==
  [][(clicks' = clicks /\ last'.out = "fail")
       => /\ projects' = projects
          /\ requirements' = requirements
          /\ selectedProject' = selectedProject
          /\ selectedRequirement' = selectedRequirement
          /\ analysisResult' = analysisResult
          /\ enhancementResults' = enhancementResults
          /\ selectedEnhancement' = selectedEnhancement
          /\ batch' = batch
          /\ message' # ""]_vars

\* C8: after a successful delete the selection is cleared if the deleted entity was
\* the selected one (a project: no selected project and an empty requirements list; a
\* requirement: no selected requirement and the details view closed); a delete of
\* another entity leaves the selection unchanged.
C8_DeleteClearsSelection ==
  [][(clicks' = clicks /\ last'.out = "ok")
       => /\ last'.op = "deleteProject" =>
               IF selectedProject.id = last'.id
                 THEN selectedProject' = Null /\ requirements' = <<>>
                 ELSE selectedProject' = selectedProject
          /\ last'.op = "deleteRequirement" =>
               IF selectedRequirement.id = last'.id
                 THEN selectedRequirement' = Null /\ ~showRequirementDetails'
                 ELSE selectedRequirement' = selectedRequirement]_vars

\* C9: a DELETE that the backend answers with a 2xx status and an empty body is a
\* success: the success notification is shown, the selection is cleared when the
\* deleted entity was selected, and the refetch is triggered.
C9_EmptyDeleteIsSuccess ==
  [][(clicks' = clicks /\ last'.op \in {"deleteProject", "deleteRequirement"}
        /\ last'.val.status \in 200..299 /\ ~last'.val.hasBody)
       => /\ message' = IF last'.op = "deleteProject"
                          THEN "success: Project deleted successfully"
                          ELSE "success: Requirement deleted successfully"
          /\ Spawned(LoadProjectsTask)
          /\ (last'.op = "deleteProject" /\ selectedProject.id = last'.id)
               => selectedProject' = Null
          /\ (last'.op = "deleteRequirement" /\ selectedRequirement.id = last'.id)
               => selectedRequirement' = Null]_vars

MutationOps == MutatingKinds \ {"generate"}

\* C10: every successful mutating operation is followed by a refetch of the projects
\* list and/or of the requirements list of the active (selected) project.
C10_SuccessRefetches ==
  [][(clicks' = clicks /\ last'.op \in MutationOps /\ last'.out = "ok")
       => \/ Spawned(LoadProjectsTask)
          \/ /\ selectedProject' # Null
             /\ Spawned(LoadRequirementsTask(selectedProject'.id))]_vars

\* The create calls of add-all operation op that are in flight.
CreatesInFlight(b, op) ==
  {t \in BagToSet(b) : t.kind = "addAllCreate" /\ t.cSel = op}

\* C11: add-all issues one create call per candidate, and it leaves InFlight (clears
\* loading and shows its success or failure notification) only when every one of
\* its create calls has settled, also when one of them fails.
C11_AddAllWaitsForAll ==
  [][/\ (clicks' # clicks /\ last'.op = "addAll" /\ last'.out = "call")
          => InFlight("addAllCreate")' =
               InFlight("addAllCreate") + Len(generatedRequirements)
     /\ (clicks' = clicks /\ last'.op = "addAll" /\ last'.out \in {"ok", "fail"})
          => CreatesInFlight(tasks', last'.val) = {}]_vars

\* The dashboard under the scheduling that the event loop guarantees: a timer that
\* was set fires.  Nothing obliges the backend to answer, and apiRequest gives fetch
\* neither a timeout nor an abort signal: a call settles only when an answer or a
\* network error arrives.
SpecLive == Spec /\ WF_vars(TimerFires)

\* C12: every call eventually resolves, with a result or with a failure, even if
\* the backend never responds: an operation that set the loading flag eventually
\* clears it.
C12_EveryOperationReturnsToIdle == loading ~> ~loading

\* The network calls of a bag of tasks: every task but a handler awaiting its calls.
RECURSIVE CountCalls(_, _)
CountCalls(ts, b) ==
  IF ts = {} THEN 0
  ELSE LET t == CHOOSE x \in ts : TRUE
       IN (IF t.kind # "addAll" THEN CopiesIn(t, b) ELSE 0) + CountCalls(ts \ {t}, b)

CallsInFlight == CountCalls(BagToSet(tasks), tasks)

Refetches == {"loadProjects", "loadRequirements"}

\* C13: an operation attempt issues its network call at most once.  A user event
\* issues at most one call (add-all: one per candidate); a call that failed, and any
\* step that is neither a user event nor a success, issues no call; a success issues
\* nothing but the refetches.  A failed call is issued again only by a new user event.
C13_NoAutomaticRetry ==
  [][/\ clicks' # clicks
          => CallsInFlight' <= CallsInFlight +
               (IF last'.op = "addAll" THEN Len(generatedRequirements) ELSE 1)
     /\ (clicks' = clicks /\ last'.out # "ok")
          => \A t \in BagToSet(tasks') : t.kind # "addAll" => ~Spawned(t)
     /\ (clicks' = clicks /\ last'.out = "ok")
          => \A t \in BagToSet(tasks') :
               (t.kind # "addAll" /\ Spawned(t)) => t.kind \in Refetches]_vars

C13_Witness ==
  /\ last.out = "fail" /\ last.op \in {"createProject", "analyze", "addAll"}
  /\ CallsInFlight = 0
  /\ clicks > 0

DeleteOps == {"deleteProject", "deleteRequirement"}

\* C14: a DELETE call for a project or a requirement is issued only in a step in
\* which the user confirmed the deletion of that entity; when the user declines, no
\* call is made and the whole state is unchanged.
C14_DeleteNeedsConfirmation ==
  [][/\ \A t \in BagToSet(tasks') :
          (t.kind \in DeleteOps /\ Spawned(t))
            => /\ clicks' # clicks
               /\ last'.op = t.kind
               /\ last'.id = (IF t.kind = "deleteProject" THEN t.pid ELSE t.req.id)
               /\ last'.val = TRUE
     /\ (clicks' # clicks /\ last'.op \in DeleteOps /\ last'.val = FALSE)
          => /\ tasks' = tasks
             /\ dashVars' = dashVars
             /\ loading' = loading
             /\ message' = message
             /\ timers' = timers]_vars

C14_Witness ==
  /\ last.op = "deleteRequirement" /\ last.out = "declined" /\ last.val = FALSE
  /\ tasks = EmptyBag
  /\ \E k \in DOMAIN requirements : requirements[k].id = last.id

\* The requirements the store holds: the list and the selected requirement.
StoreEntries ==
  {requirements[k] : k \in DOMAIN requirements}
    \cup (IF selectedRequirement = Null THEN {} ELSE {selectedRequirement})

\* An Analyze of requirement id has succeeded: the backend holds its analysis.
\* (A requirement that was deleted meanwhile is not constrained.)
AnalyzeSucceeded(id) == \A r \in backend.reqs : r.id = id => r.analysis # Null

\* C15: the status of a requirement in the store is Draft until an Analyze of that
\* requirement has succeeded: no create, edit, generation, addition of a candidate,
\* failed analyze or rejected enhance moves it out of Draft.
C15_DraftUntilAnalyzed ==
  \A e \in StoreEntries : e.status # "Draft" => AnalyzeSucceeded(e.id)

C15_Witness ==
  /\ last.op = "analyze" /\ last.out = "fail"
  /\ \E k \in DOMAIN requirements :
       requirements[k].id = last.id /\ requirements[k].status = "Draft"
  /\ \E r \in backend.reqs : r.id = last.id /\ r.analysis = Null

\* The dashboard accepts a user event that issues an analyze call: the flag that
\* disables the buttons is clear and the bounds of the model leave room.
CanStartAnalyze == ~loading /\ Room(2) /\ clicks < MaxClicks

\* C16: Analyze can be triggered on a requirement in any status: for every listed
\* requirement, and for the requirement shown in the details view, the Analyze
\* control is available whatever the status is.
C16_AnalyzeInAnyStatus ==
  /\ \A j \in DOMAIN requirements :
       (selectedProject # Null /\ CanStartAnalyze) => ENABLED ClickAnalyzeInList(j)
  /\ (showRequirementDetails /\ selectedRequirement # Null /\ CanStartAnalyze)
       => ENABLED ClickAnalyzeInDetails

\* C17: a successful Analyze of a requirement that already has an Analysis replaces
\* it entirely: the Analysis stored for the requirement is exactly the new response,
\* with no issue of the prior Analysis that the response does not contain.
C17_ReanalyzeReplaces ==
  [][(clicks' = clicks /\ last'.op = "analyze" /\ last'.out = "ok"
        /\ last'.prior # Null)
       => \A k \in DOMAIN requirements' :
            requirements'[k].id = last'.id
              => /\ requirements'[k].analysis = last'.val
                 /\ requirements'[k].qualityScore = last'.val.overallScore]_vars

C17_Witness ==
  /\ last.op = "analyze" /\ last.out = "ok"
  /\ last.prior # Null
  /\ last.prior.issues = <<"ambiguity">>
  /\ last.val.issues = <<>>
  /\ \E k \in DOMAIN requirements :
       requirements[k].id = last.id /\ requirements[k].analysis.issues = <<>>

UniqueIds(reqs) == \A i, j \in DOMAIN reqs : reqs[i].id = reqs[j].id => i = j

OptimisticOps == {"analyze", "enhance", "apply"}

\* C18: after a refetch of the requirements settles the store holds no two
\* requirements with the same identifier, and the in-place update of a successful
\* analyze, enhance or apply neither changes the number of entries of the store nor
\* introduces a duplicate identifier.
C18_NoDuplicateIds ==
  [][/\ (clicks' = clicks /\ last'.op = "loadRequirements" /\ last'.out = "ok")
          => UniqueIds(requirements')
     /\ (clicks' = clicks /\ last'.op \in OptimisticOps /\ last'.out = "ok")
          => /\ Len(requirements') = Len(requirements)
             /\ UniqueIds(requirements')]_vars

CreateKinds == {"addRequirement", "addGenerated", "addAllCreate"}

\* C19: a successful GenerateRequirements only fills the results buffer and opens
\* the results view: the requirements, the projects, the selection and the backend's
\* data are unchanged and the step issues no call; a create-requirement call is
\* issued only by a user event that adds a requirement, one candidate or all of them.
C19_GenerateOnlyFillsBuffer ==
  [][/\ (clicks' = clicks /\ last'.op = "generate" /\ last'.out = "ok")
          => /\ showGenerationResults'
             /\ Len(generatedRequirements') = last'.val
             /\ requirements' = requirements
             /\ projects' = projects
             /\ selectedProject' = selectedProject
             /\ selectedRequirement' = selectedRequirement
             /\ backend' = backend
             /\ \A t \in BagToSet(tasks') : ~Spawned(t)
     /\ \A t \in BagToSet(tasks') :
          (t.kind \in CreateKinds /\ Spawned(t))
            => /\ clicks' # clicks
               /\ last'.op \in {"addRequirement", "addGenerated", "addAll"}]_vars

C19_Witness ==
  /\ last.op = "generate" /\ last.out = "ok" /\ last.val = 2
  /\ showGenerationResults
  /\ Len(generatedRequirements) = 2
  /\ PendingCreates = 0
  /\ Cardinality(backend.reqs) = 1

\* A non-2xx answer whose body carries an `error` string.
HasErrorField(resp) ==
  /\ resp.status # 0
  /\ ~(resp.status \in 200..299)
  /\ resp.hasBody
  /\ "error" \in DOMAIN resp.body

\* The operations whose failure event records the backend's answer.
AnswerRecorded == {"createProject", "deleteProject", "deleteRequirement"}

\* C20: when the backend answers a call with a non-2xx status and a body carrying
\* an `error` string, the notification shown to the user carries that string.
C20_ErrorShownVerbatim ==
  [][(clicks' = clicks /\ last'.out = "fail" /\ last'.op \in AnswerRecorded
        /\ HasErrorField(last'.val))
       => message' = "error: " \o last'.val.body.error]_vars

\* The screens whose notifications are shown by showMessage, which sets the timer
\* that dismisses them.
TimedViews == {"projects", "dashboard"}

\* C21: every failure of an operation is converted by its handler into a notification
\* that the user sees and that is dismissed automatically: the step in which a call
\* fails shows a message, and where the screen uses showMessage it sets the timer
\* that clears it.
C21_FailureNotified ==
  [][(clicks' = clicks /\ last'.out = "fail")
       => /\ message' # ""
          /\ view \in TimedViews => timers' = timers + 1]_vars

\* The positions of the projects list that hold project p.
Listed(list, p) == {k \in DOMAIN list : list[k].id = p.id /\ list[k].name = p.name}

\* C22: after a successful Create of a project and the refetch of the list that
\* follows it, the projects list contains the new project exactly once: whenever a
\* refetch of the projects settles, every project the backend holds (the created
\* ones among them) is listed once, under its id and name, and nothing else is.
C22_CreatedListedOnce ==
  [][(clicks' = clicks /\ last'.op = "loadProjects" /\ last'.out = "ok")
       => /\ \A p \in backend'.projects : Cardinality(Listed(projects', p)) = 1
          /\ Len(projects') = Cardinality(backend'.projects)]_vars

C22_Witness ==
  /\ last.op = "loadProjects" /\ last.out = "ok"
  /\ InFlight("loadProjects") = 0
  /\ \E p \in backend.projects :
       /\ \A q \in UNION {b.projects : b \in InitBackends} : q.id # p.id
       /\ Cardinality(Listed(projects, p)) = 1
       /\ Trim(p.name) # <<>>

\* The bands of the specification.
ScoreBand(s) ==
  IF s >= 80 THEN "good" ELSE IF s >= 60 THEN "warning" ELSE "critical"

Places == {"list", "progress", "average"}

\* C23: every place that colours a quality score uses the same bands for every
\* integer score from 0 to 100: good from 80, warning from 60 to 79, critical below 60.
C23_SameBandsEverywhere ==
  painted # Null => \A place \in Places : Band(painted[place]) = ScoreBand(score)

\* C24: whenever a project is selected and no request is in flight, every
\* requirement of the store belongs to the selected project, whatever the order in
\* which selections, operations and answers interleave.
C24_StoreOfSelectedProject ==
  (selectedProject # Null /\ tasks = EmptyBag)
    => \A k \in DOMAIN requirements : requirements[k].projectId = selectedProject.id

\* C25: a requirement that a successful delete removed from the store never
\* reappears in it, also when an analyze, enhance or apply-enhancement that started
\* before the delete completes after it and writes back its copy of the list: no
\* later step puts a requirement that the backend no longer holds into the list.
C25_DeletedStaysDeleted ==
  [][\A k \in DOMAIN requirements' :
       (\A r \in backend'.reqs : r.id # requirements'[k].id)
         => \E j \in DOMAIN requirements : requirements[j].id = requirements'[k].id]_vars

\* C26: once the refetch of the projects that follows a successful mutation of a
\* requirement has settled, the aggregates of the selected project (the counts shown
\* in its header) equal those of the entry with the same id in the refreshed list.
C26_AggregatesRefreshed ==
  [][(clicks' = clicks /\ last'.op = "loadProjects" /\ last'.out = "ok"
        /\ selectedProject' # Null)
       => \A k \in DOMAIN projects' :
            projects'[k].id = selectedProject'.id
              => /\ selectedProject'.requirementCount = projects'[k].requirementCount
                 /\ selectedProject'.analyzedCount = projects'[k].analyzedCount]_vars

\* The calls of the operations that set the loading flag.
LoadingKinds == {"generate", "addAllCreate", "analyze", "enhance", "apply"}

\* The operations sharing the flag that have a call outstanding: a call of an
\* add-all stands for its operation, the others for themselves.
LoadingOps ==
  {<<t.kind, t.cSel>> : t \in {u \in BagToSet(tasks) : u.kind = "addAllCreate"}}
    \cup {<<t.kind, t.req.id, t.arg>> :
            t \in {u \in BagToSet(tasks) : u.kind \in LoadingKinds \ {"addAllCreate"}}}

\* C27: at most one of the operations that share the loading flag (generate,
\* add-all, analyze, enhance, apply) is in flight at any time, and the flag is true
\* exactly while one of them has a network call outstanding.
C27_LoadingMeansOneInFlight ==
  /\ Cardinality(LoadingOps) <= 1
  /\ \A t \in BagToSet(tasks) :
       t.kind \in LoadingKinds \ {"addAllCreate"} => CopiesIn(t, tasks) = 1
  /\ loading <=> LoadingOps # {}

\* C28: when the health-check request fails (a network error or a non-2xx answer)
\* the API status of the dashboard becomes 'error', which is shown as OFFLINE; it
\* becomes 'degraded' only when the backend answered with a status other than
\* 'healthy'.
C28_FailedHealthCheckIsError ==
  [][(clicks' = clicks /\ last'.op = "checkApiStatus" /\ tasks' # tasks)
       => /\ ~(last'.val.status \in 200..299) => apiStatus'.status = "error"
          /\ apiStatus'.status = "degraded"
               => /\ last'.val.status \in 200..299
                  /\ last'.val.hasBody
                  /\ last'.val.body # JsonNull
                  /\ last'.val.body.status # "healthy"]_vars

\* C29: in the batch analyzer, after any sequence of add, file upload, delete and
\* clear operations, no two requirements of the list have the same id.
C29_BatchIdsUnique == UniqueIds(batch)

\* C30: a notification stays visible until its own dismissal timer fires: a message
\* shown while the timer of an earlier one is pending is not cleared by that earlier
\* timer.  (Timers fire in the order they were set: the message on display is
\* cleared by its own timer exactly when no other timer is pending.)
C30_ClearedByOwnTimer ==
  [][(timers' = timers - 1 /\ message # "" /\ message' = "") => timers = 1]_vars

====
